---- MODULE Spec2Model ----
(***************************************************************************)
(* A model of the crawl and classification pipeline of the repository: the *)
(* persistent frontier (StateDB, CrawlQueue), the crawl orchestrator       *)
(* (news_crawler.run), the per-domain rate limiter (DomainRateLimiter),    *)
(* the adaptive pacing of PoliteSession, the two bounded-retry fetchers    *)
(* (downloader.fetch, PoliteSession.get), the robots.txt queries           *)
(* (robots.py), URL canonicalization (canonicalize.py), the lexicon        *)
(* builders (build_lexicon, build_lexicons) and the lexicon scorer         *)
(* (score_row).                                                            *)
(*                                                                         *)
(* Each subsystem has its own variables and its own specification; a       *)
(* specification leaves the variables of the other subsystems at their     *)
(* initial values.                                                         *)
(***************************************************************************)
EXTENDS Integers, Sequences, FiniteSets, TLC

VARIABLES
    \* ---- the durable store (state.db) and the CrawlQueue object ----
    queue,            \* rows of table "queue": [id, url, depth, source, record_type]
    sqlite_sequence,  \* the AUTOINCREMENT counter of table "queue"
    domain_counts,    \* CrawlQueue.domain_counts (in memory)
    \* ---- history of the frontier's calls ----
    lastOp,           \* the last call on the CrawlQueue and what it returned
    pending,          \* the rows inserted and not yet popped, in insertion order
    popCount,         \* how often pop returned each URL in this process
    \* ---- news_crawler.run: one crawl process ----
    pc,               \* where run() stands: idle, seed, loop, popped, links, done
    seedIdx,          \* the next seed of NEWS_SEEDS to push
    item,             \* the row pop returned, being processed
    links,            \* the child links of the fetched page still to push
    rows,             \* the DocumentRecords held in memory
    csv,              \* the rows of the output dataset (news_raw.csv)
    waited,           \* the hosts DomainRateLimiter.last_time has an entry for
    crashes,          \* how many processes crashed so far
    \* ---- history of the crawl ----
    poppedBefore,     \* the URLs whose pop an earlier, crashed process committed
    poppedRun,        \* the URLs whose pop this process committed
    fetched,          \* the popped URLs this process issued a fetch for
    fetches,          \* per domain, how many fetches this process issued
    trail,            \* the calls run() made for the popped item, in order
    \* ---- DomainRateLimiter, and the clock it reads ----
    now,              \* time.time(), in tenths of a second
    last_time,        \* DomainRateLimiter.last_time: host -> time, or NoTime
    robots_delay,     \* the Crawl-delay of each host's cached robots.txt, or NoDelay
    prev_time,        \* per host, when the wait call before the last one returned
    nWaits,           \* the wait calls made so far
    ticked,           \* whether time passed since the last wait call
    \* ---- PoliteSession ----
    adaptive_extra,   \* PoliteSession.adaptive_extra: netloc -> extra delay
    domain_delay,     \* PoliteSession.domain_delay: netloc -> delay, or NoDelay
    text_delay,       \* the Crawl-delay _crawl_delay_from_text finds, or NoDelay
    has_ts,           \* the netlocs PoliteSession.last_request_ts has an entry for
    ppc,              \* where get() stands: idle, try
    pnetloc,          \* the netloc of the URL get() was called with
    pattempt,         \* the loop variable attempt of get()
    pcalls,           \* the session.get calls this get() made
    presult,          \* how the last get() ended: response, none, raised
    lastResp,         \* the outcome of the last session.get call
    pslept,           \* the length of the last sleep of get()
    pretriable,       \* whether every request of this get() ended retriably
    aleft,            \* the retries the mounted adapter has left in this session.get
    wire,             \* the HTTP requests this get() has sent to the origin
    \* ---- one call of downloader.fetch ----
    fpc,              \* "idle" or "loop": where fetch(url) stands
    attempt,          \* the local attempt of fetch
    backoff,          \* the local backoff of fetch, in tenths of a second
    fcalls,           \* the session.get calls this fetch has made
    fslept,           \* the sleep before the latest session.get call
    fresult,          \* "" while running, then "none" or "tuple"
    fout,             \* the outcome of the latest session.get call
    fretriable,       \* whether every call of this fetch ended retriably
    \* ---- crawler/robots.py ----
    robots_site,      \* per origin, what a request for its robots.txt ends in
    robots_cache,     \* the lru_cache of _get_parser: root -> parser or Unread
    robots_reads,     \* per origin, the requests made for its robots.txt
    rq,               \* the last query of allowed / crawl_delay and its answer
    ps_robots_cache,  \* PoliteSession.robots_cache: the netlocs with a parser
    ps_robots_text,   \* PoliteSession.robots_text: the netlocs with a text
    \* ---- calls of canonicalize_url ----
    cop,              \* "idle", "input", "once", "twice" or "pair": what was applied
    cin,              \* the URL canonicalize_url was given
    cout,             \* what it returned
    cprev,            \* what the call before returned, when its result was fed back
    cin2,             \* a second URL, equal to cin up to what canonicalization drops
    cout2,            \* what canonicalize_url returned for cin2
    \* ---- the lexicon builders ----
    lpc,              \* "idle", "load" while documents are read, then "built"
    corpus,           \* the labelled documents read so far, in file order
    lexfile,          \* the lexicon file on disk, or NoFile
    lexbuilt,         \* what the builder that ran did: its outcome and its lexicon
    \* ---- classify/score_and_label.py ----
    spc,              \* "idle", "input" while the inputs are read, then "scored"
    srow,             \* the tokens cell of the row: its pieces between blanks
    slex,             \* the loaded lexicon: its categories in the order of the file
    sout              \* what score_row returned: label and top3

\* Python's None where a tuple is expected (a popped row, a call's arguments)
None == <<>>

\* no Crawl-delay: robots.crawl_delay and _crawl_delay_from_text return None
NoDelay == -1

Max(a, b) == IF a >= b THEN a ELSE b
Range(seq) == {seq[i] : i \in DOMAIN seq}

Min(a, b) == IF a <= b THEN a ELSE b

-----------------------------------------------------------------------------
(* URLs, as urlparse splits them.  A path is its sequence of segments and  *)
(* "/" separators; a query is its sequence of (key, value) pairs.          *)

Url(scheme, netloc, path, query, fragment) ==
    [scheme |-> scheme, netloc |-> netloc, path |-> path,
     query |-> query, fragment |-> fragment]

\* str.lower() on the host and scheme spellings the model uses
Lower(s) ==
    CASE s = "A.com" -> "a.com"
      [] s = "HTTPS" -> "https"
      [] OTHER -> s

\* no URL: the url field of a call that takes or returns none
NoUrl == Url("", "", <<>>, <<>>, "")

UrlRoot == Url("https", "a.com", <<"/">>, <<>>, "")
UrlX    == Url("https", "a.com", <<"/", "x">>, <<>>, "")
UrlXUp  == Url("https", "A.com", <<"/", "x">>, <<>>, "")
UrlB    == Url("https", "b.org", <<"/">>, <<>>, "")

\* the URLs handed to the frontier's operations
QueueUrls == {UrlRoot, UrlX, UrlXUp, UrlB}

UrlXFrag == Url("https", "a.com", <<"/", "x">>, <<>>, "top")
UrlTrap  == Url("https", "a.com", <<"/", "page", "/", "12">>, <<>>, "")
\* https://a.com/page//12: a trap only once its slashes are collapsed
UrlTrapRaw == Url("https", "a.com", <<"/", "page", "/", "/", "12">>, <<>>, "")

Domains == {"a.com", "b.org"}
\* the (source, record_type) labels of an item: news_crawler.run passes the
\* seed's netloc and "news"; record_type is one of news, reddit
Labels == {<<"a.com", "news">>, <<"b.org", "reddit">>}

\* the page budget of a domain; config.py sets 200, the model a small value
MAX_PAGES_PER_DOMAIN == 2
CRAWL_DEPTH == 1

\* how many rows the store's AUTOINCREMENT counter may hand out in a run of the model
MaxId == 3

\* the most links taken from one fetched page
MaxLinks == 2

\* how many times the crawl process may crash and be started again
MaxCrashes == 1

-----------------------------------------------------------------------------
(* canonicalize.py *)

TRACKING_KEYS ==
    {"utm_source", "utm_medium", "utm_campaign", "utm_term", "utm_content",
     "gclid", "fbclid", "igshid"}

\* the strings of the model's queries, in Python's string order
StrOrder ==
    <<"1", "12", "2", "a", "a b", "b", "fbclid", "page", "utm_id",
      "utm_source">>
StrRank(str) == CHOOSE i \in DOMAIN StrOrder : StrOrder[i] = str

\* (k1, v1) <= (k2, v2) as Python compares tuples of strings
PairLeq(p, q) ==
    \/ StrRank(p[1]) < StrRank(q[1])
    \/ p[1] = q[1] /\ StrRank(p[2]) <= StrRank(q[2])

RECURSIVE InsertPair(_, _)
InsertPair(pair, sorted) ==
    IF sorted = <<>> THEN <<pair>>
    ELSE IF PairLeq(pair, Head(sorted)) THEN <<pair>> \o sorted
    ELSE <<Head(sorted)>> \o InsertPair(pair, Tail(sorted))

\* the pairs in reverse instead of sorted: a mutation of SortPairs
RECURSIVE ReversePairs(_)
ReversePairs(pairs) ==
    IF pairs = <<>> THEN <<>>
    ELSE ReversePairs(Tail(pairs)) \o <<Head(pairs)>>

\* sorted(query_pairs)
RECURSIVE SortPairs(_)
SortPairs(pairs) ==
    IF pairs = <<>> THEN <<>>
    ELSE InsertPair(Head(pairs), SortPairs(Tail(pairs)))

\* re.sub(r"/{2,}", "/", path): a "/" that follows a "/" is dropped
RECURSIVE CollapseSlashes(_)
CollapseSlashes(path) ==
    IF Len(path) <= 1 THEN path
    ELSE IF path[1] = "/" /\ path[2] = "/" THEN CollapseSlashes(Tail(path))
    ELSE <<Head(path)>> \o CollapseSlashes(Tail(path))

\* the percent- and plus-decoding parse_qsl does on a key or a value
Unquote(str) ==
    CASE str = "%61" -> "a"
      [] str = "a+b" -> "a b"
      [] str = "a%20b" -> "a b"
      [] OTHER -> str

\* quote_plus, the encoding urlencode does on a key or a value
QuotePlus(str) ==
    CASE str = "a b" -> "a+b"
      [] OTHER -> str

\* parse_qsl(p.query, keep_blank_values=True)
parse_qsl(query) == [i \in DOMAIN query |-> <<Unquote(query[i][1]), Unquote(query[i][2])>>]

\* urlencode(pairs)
urlencode(pairs) == [i \in DOMAIN pairs |-> <<QuotePlus(pairs[i][1]), QuotePlus(pairs[i][2])>>]

canonicalize_url(url) ==
    Url(Lower(url.scheme),
        Lower(url.netloc),
        CollapseSlashes(IF url.path = <<>> THEN <<"/">> ELSE url.path),
        urlencode(SortPairs(SelectSeq(parse_qsl(url.query),
                                      LAMBDA kv : kv[1] \notin TRACKING_KEYS))),
        "")

-----------------------------------------------------------------------------
(* StateDB *)

Row(id, url, depth, source, record_type) ==
    [id |-> id, url |-> url, depth |-> depth, source |-> source,
     record_type |-> record_type]

HasUrl(tbl, url) == \E r \in tbl : r.url = url

\* INSERT OR REPLACE: the conflicting row is deleted and a new one inserted
DbPushReplace(tbl, seq, url, depth, source, record_type) ==
    [rows |-> {r \in tbl : r.url # url}
                \cup {Row(seq + 1, url, depth, source, record_type)},
     seq  |-> seq + 1]

\* StateDB.push: INSERT OR IGNORE on the UNIQUE column url; a new row gets
\* the next AUTOINCREMENT id
DbPush(tbl, seq, url, depth, source, record_type) ==
    IF HasUrl(tbl, url)
    THEN [rows |-> tbl, seq |-> seq]
    ELSE [rows |-> tbl \cup {Row(seq + 1, url, depth, source, record_type)},
          seq  |-> seq + 1]

\* ORDER BY id DESC LIMIT 1
NewestRow(tbl) == CHOOSE r \in tbl : \A o \in tbl : o.id <= r.id

\* SELECT ... FROM queue ORDER BY id LIMIT 1
OldestRow(tbl) == CHOOSE r \in tbl : \A o \in tbl : r.id <= o.id

NoRowEarly(tbl) == Cardinality(tbl) <= 1

\* fetchone() gave no row: StateDB.pop returns None
NoRow(tbl) == tbl = {}

\* DELETE FROM queue WHERE id=?
DbDelete(tbl, id) == {r \in tbl : r.id # id}

\* what StateDB.pop returns for a row
RowTuple(r) == <<r.url, r.depth, r.source, r.record_type>>

-----------------------------------------------------------------------------
(* CrawlQueue *)

_domain(url) == Lower(url.netloc)

\* CrawlQueue.pop counts the popped row's domain
CountPop(counts, url) == [counts EXCEPT ![_domain(url)] = @ + 1]

BudgetReachedStrict(counts, dom) == counts[dom] > MAX_PAGES_PER_DOMAIN

\* the guard of CrawlQueue.push
BudgetReached(counts, dom) == counts[dom] >= MAX_PAGES_PER_DOMAIN

qvars == <<queue, sqlite_sequence, domain_counts>>
hvars == <<lastOp, pending, popCount>>

QueueInit ==
    /\ queue = {}
    /\ sqlite_sequence = 0
    /\ domain_counts = [d \in Domains |-> 0]

HistoryInit ==
    /\ lastOp = [op |-> "init", url |-> NoUrl, args |-> None, ret |-> None]
    /\ pending = <<>>
    /\ popCount = [u \in QueueUrls |-> 0]

\* CrawlQueue.seed(url, source, record_type): the store after it
CqSeed(url, source, record_type) ==
    DbPush(queue, sqlite_sequence, url, 0, source, record_type)

\* CrawlQueue.push(url, depth, source, record_type): the store after it
CqPush(url, depth, source, record_type) ==
    IF BudgetReached(domain_counts, _domain(url))
    THEN [rows |-> queue, seq |-> sqlite_sequence]
    ELSE DbPush(queue, sqlite_sequence, url, depth, source, record_type)

\* the store and the history take the outcome of a push; MaxId bounds the ids
StorePush(new, url, depth, source, record_type) ==
    /\ new.seq <= MaxId
    /\ queue' = new.rows
    /\ sqlite_sequence' = new.seq
    /\ pending' = IF new.seq = sqlite_sequence
                  THEN pending
                  ELSE Append(pending, <<url, depth, source, record_type>>)

Seed(url, source, record_type) ==
    /\ StorePush(CqSeed(url, source, record_type), url, 0, source, record_type)
    /\ lastOp' = [op |-> "seed", url |-> url,
                 args |-> <<0, source, record_type>>, ret |-> None]
    /\ UNCHANGED <<domain_counts, popCount>>

Push(url, depth, source, record_type) ==
    /\ StorePush(CqPush(url, depth, source, record_type),
                 url, depth, source, record_type)
    /\ lastOp' = [op |-> "push", url |-> url,
                 args |-> <<depth, source, record_type>>, ret |-> None]
    /\ UNCHANGED <<domain_counts, popCount>>

\* CrawlQueue.pop()
Pop ==
    IF NoRow(queue)
    THEN /\ lastOp' = [op |-> "pop", url |-> NoUrl, args |-> None, ret |-> None]
         /\ UNCHANGED <<queue, sqlite_sequence, domain_counts, pending, popCount>>
    ELSE LET row == OldestRow(queue)
         IN /\ queue' = DbDelete(queue, row.id)
            /\ domain_counts' = CountPop(domain_counts, row.url)
            /\ lastOp' = [op |-> "pop", url |-> row.url, args |-> None,
                           ret |-> RowTuple(row)]
            /\ pending' = SelectSeq(pending, LAMBDA t : t[1] # row.url)
            /\ popCount' = [popCount EXCEPT ![row.url] = @ + 1]
            /\ UNCHANGED sqlite_sequence

\* the process ends and a new one opens the same state.db
Restart ==
    /\ domain_counts' = [d \in Domains |-> 0]
    /\ popCount' = [u \in QueueUrls |-> 0]
    /\ lastOp' = [op |-> "restart", url |-> NoUrl, args |-> None, ret |-> None]
    /\ UNCHANGED <<queue, sqlite_sequence, pending>>

-----------------------------------------------------------------------------
(* news_crawler.py: the crawl orchestrator *)

cvars == <<pc, seedIdx, item, links, rows, csv, waited, crashes>>
gvars == <<poppedBefore, poppedRun, fetched, fetches, trail>>

rvars == <<now, last_time, robots_delay, prev_time, nWaits, ticked>>

pvars == <<adaptive_extra, domain_delay, text_delay, has_ts, ppc, pnetloc,
           pattempt, pcalls, presult, lastResp, pslept, pretriable,
           aleft, wire>>

fvars == <<fpc, attempt, backoff, fcalls, fslept, fresult, fout, fretriable>>

bvars == <<robots_site, robots_cache, robots_reads, rq, ps_robots_cache,
          ps_robots_text>>

uvars == <<cop, cin, cout, cprev, cin2, cout2>>

lvars == <<lpc, corpus, lexfile, lexbuilt>>

svars == <<spc, srow, slex, sout>>

vars == <<qvars, hvars, cvars, gvars, rvars, pvars, fvars, bvars, uvars,
          lvars, svars>>

\* the netlocs PoliteSession.get is called for
PoliteHosts == {"a.com", "b.org"}

\* no outcome: no session.get call was made in the last step
NoResp == [kind |-> "none", status |-> 0, retry_after |-> "absent"]

\* no lexicon file, and no outcome of a build
NoFile == [written |-> FALSE]
NoBuild == [builder |-> "none", outcome |-> "none", lexicon |-> <<>>,
            vocabulary |-> <<>>, top_k |-> 0, min_df |-> 0]

\* no result of score_row
NoScore == [label |-> "none", top3 |-> <<>>]

\* no row is scored
ScoreIdle == spc = "idle" /\ srow = <<>> /\ slex = <<>> /\ sout = NoScore

\* no lexicon is built
LexIdle ==
    /\ lpc = "idle" /\ corpus = <<>> /\ lexfile = NoFile /\ lexbuilt = NoBuild

\* canonicalize_url is not called
CanonIdle ==
    /\ cop = "idle" /\ cin = NoUrl /\ cout = NoUrl /\ cprev = NoUrl
    /\ cin2 = NoUrl /\ cout2 = NoUrl

\* the URLs robots.txt is asked about, and the roots rootsite makes of them
RobotsUrls == {UrlRoot, UrlX, UrlXUp, UrlB}

\* robots.py: rootsite
rootsite(url) == <<url.scheme, url.netloc>>

RobotsRoots == {rootsite(u) : u \in RobotsUrls}

\* the cache entry of a root _get_parser was never called with
Unread == [read |-> FALSE]

\* no query was made
NoQuery == [op |-> "none", url |-> NoUrl, allowed |-> TRUE, delay |-> NoDelay]

\* robots.txt is not consulted
RobotsIdle ==
    /\ robots_site = [o \in Domains |->
                        [kind |-> "http", status |-> 404, body |-> "none"]]
    /\ robots_cache = [r \in RobotsRoots |-> Unread]
    /\ robots_reads = [o \in Domains |-> 0]
    /\ rq = NoQuery
    /\ ps_robots_cache = {} /\ ps_robots_text = {}

\* no fetch is running
FetchIdle ==
    /\ fpc = "idle" /\ attempt = 0 /\ backoff = 0 /\ fcalls = 0 /\ fslept = 0
    /\ fresult = "" /\ fout = NoResp /\ fretriable = TRUE

\* no PoliteSession is in use
PoliteIdle ==
    /\ adaptive_extra = [h \in PoliteHosts |-> 0]
    /\ domain_delay = [h \in PoliteHosts |-> NoDelay]
    /\ text_delay = [h \in PoliteHosts |-> NoDelay]
    /\ has_ts = {} /\ ppc = "idle" /\ pnetloc = "" /\ pattempt = 0
    /\ pcalls = 0 /\ presult = "" /\ lastResp = NoResp /\ pslept = 0
    /\ pretriable = TRUE /\ aleft = 0 /\ wire = 0

\* the hosts the rate limiter is asked about
RateHosts == {"a.com", "old.reddit.com"}

NoTime == -1

\* no DomainRateLimiter is in use
RateIdle ==
    /\ now = 0 /\ nWaits = 0 /\ ticked = FALSE
    /\ last_time = [h \in RateHosts |-> NoTime]
    /\ prev_time = [h \in RateHosts |-> NoTime]
    /\ robots_delay = [h \in RateHosts |-> NoDelay]

\* config.NEWS_SEEDS: one seed per news site
NEWS_SEEDS == <<UrlRoot, UrlB>>

\* the hrefs extract_links may yield for a fetched page
Hrefs == {UrlRoot, UrlXFrag, UrlTrap, UrlTrapRaw, UrlB}

\* the link lists of a page: every sequence of at most MaxLinks hrefs
LinkSeqs == UNION {[1..n -> Hrefs] : n \in 0..MaxLinks}

\* segments that begin with two (four) digits
TwoDigits == {"12", "2024"}
FourDigits == {"2024"}

\* looks_like_trap(u): /page/NN or [?&]page=NN, or (calendar|events)/NNNN
looks_like_trap(u) ==
    \/ \E i \in 1..(Len(u.path) - 3) :
          /\ u.path[i] = "/" /\ Lower(u.path[i + 1]) = "page"
          /\ u.path[i + 2] = "/" /\ u.path[i + 3] \in TwoDigits
    \/ \E i \in DOMAIN u.query :
          Lower(u.query[i][1]) = "page" /\ u.query[i][2] \in TwoDigits
    \/ \E i \in 1..(Len(u.path) - 2) :
          /\ Lower(u.path[i]) \in {"calendar", "events"}
          /\ u.path[i + 1] = "/" /\ u.path[i + 2] \in FourDigits

\* sha_uid(url): a hash, taken to be collision-free
sha_uid(url) == <<"sha256", url>>

\* the links run() keeps of a page: same netloc as the popped URL, no trap
KeptLinks(hrefs, url) ==
    SelectSeq(hrefs, LAMBDA h : h.netloc = url.netloc /\ ~looks_like_trap(h))

\* if depth < CRAWL_DEPTH: the link lists run() may go on to push for a page
PageLinks(url, depth) ==
    IF depth < CRAWL_DEPTH
    THEN {KeptLinks(hrefs, url) : hrefs \in LinkSeqs}
    ELSE {<<>>}

\* a child is given the depth of its parent: a mutation of ChildDepth
ChildDepthSame(depth) == depth

\* the depth run() gives a child link
ChildDepth(depth) == depth + 1

\* what fetch(can_url) returns: (code, final_url, html); code 0 and the empty
\* html stand for the none-tuple
FetchResults ==
    {[code |-> 200, html |-> "page"], [code |-> 200, html |-> ""],
     [code |-> 404, html |-> "page"], [code |-> 0, html |-> ""]}

NoItem == <<NoUrl, 0, "", "">>

\* len(text) > 120: the shortest text crawl_news of crawl/news_crawl.py saves
MinTextLen == 120

\* the length of the text extract_article finds in a page: none (a page
\* without paragraphs), or an article just over MinTextLen
TextLengths == {0, MinTextLen + 1}

\* fetch was not called
NoResult == [code |-> 0, html |-> ""]

\* one call of the loop body and what it answered
Call(name, said, code) == [call |-> name, said |-> said, code |-> code]

\* the calls with the rate limiter's wait ahead of the checks: a mutation of
\* LoopCalls
LoopCallsWaitFirst(trap, ok, res) ==
    <<Call("rl.wait", TRUE, 0), Call("looks_like_trap", trap, 0)>>
      \o (IF trap THEN <<>>
          ELSE <<Call("allowed", ok, 0)>>
                 \o (IF ~ok THEN <<>>
                     ELSE <<Call("fetch", res.html # "", res.code)>>
                            \o (IF res.html = "" THEN <<>>
                                ELSE <<Call("extract_article", TRUE,
                                            res.text_len),
                                       Call("rows.append", TRUE, res.code)>>)))

\* the calls of one pass of the loop of run(), after the pop, in the order
\* of the code: each "continue" ends the list; extract_article is noted
\* with the length of the text it found
LoopCalls(trap, ok, res) ==
    <<Call("looks_like_trap", trap, 0)>>
      \o (IF trap THEN <<>>
          ELSE <<Call("allowed", ok, 0)>>
                 \o (IF ~ok THEN <<>>
                     ELSE <<Call("rl.wait", TRUE, 0),
                            Call("fetch", res.html # "", res.code)>>
                            \o (IF res.html = "" THEN <<>>
                                ELSE <<Call("extract_article", TRUE,
                                            res.text_len),
                                       Call("rows.append", TRUE, res.code)>>)))

CrawlIdle ==
    /\ pc = "idle" /\ seedIdx = 1 /\ item = NoItem /\ links = <<>>
    /\ rows = <<>> /\ csv = <<>> /\ waited = {} /\ crashes = 0
    /\ poppedBefore = {} /\ poppedRun = {} /\ fetched = {}
    /\ fetches = [d \in Domains |-> 0] /\ trail = <<>>

\* run() starts: rl = DomainRateLimiter(); q = CrawlQueue(); rows = []
CrawlInit ==
    /\ pc = "seed" /\ seedIdx = 1 /\ item = NoItem /\ links = <<>>
    /\ rows = <<>> /\ csv = <<>> /\ waited = {} /\ crashes = 0
    /\ poppedBefore = {} /\ poppedRun = {} /\ fetched = {}
    /\ fetches = [d \in Domains |-> 0] /\ trail = <<>>

\* for seed in NEWS_SEEDS: q.seed(seed, source=netloc, record_type="news")
RunSeed ==
    /\ pc = "seed"
    /\ LET seed == NEWS_SEEDS[seedIdx]
           new == CqSeed(seed, seed.netloc, "news")
       IN /\ queue' = new.rows
          /\ sqlite_sequence' = new.seq
    /\ seedIdx' = seedIdx + 1
    /\ pc' = IF seedIdx = Len(NEWS_SEEDS) THEN "loop" ELSE "seed"
    /\ UNCHANGED <<domain_counts, hvars, item, links, rows, csv, waited,
                   crashes, gvars>>

\* item = q.pop() returned a row
RunPop ==
    /\ pc = "loop"
    /\ ~NoRow(queue)
    /\ LET row == OldestRow(queue)
       IN /\ queue' = DbDelete(queue, row.id)
          /\ domain_counts' = CountPop(domain_counts, row.url)
          /\ item' = RowTuple(row)
          /\ poppedRun' = poppedRun \cup {row.url}
    /\ trail' = <<>>
    /\ pc' = "popped"
    /\ UNCHANGED <<sqlite_sequence, hvars, seedIdx, links, rows, csv, waited,
                   crashes, poppedBefore, fetched, fetches>>

append_rows_nothing(file, rs) == file

\* CSVDatasetWriter.append_rows: the file is opened in append mode and every
\* row is written after what the file already holds
append_rows(file, rs) == file \o rs

\* q.pop() returned None: break, then writer.append_rows(rows) if rows
RunFinish ==
    /\ pc = "loop"
    /\ NoRow(queue)
    /\ csv' = IF rows # <<>> THEN append_rows(csv, rows) ELSE csv
    /\ pc' = "done"
    /\ UNCHANGED <<qvars, hvars, seedIdx, item, links, rows, waited, crashes,
                   gvars>>

\* looks_like_trap(can_url): continue
RunSkipTrap ==
    /\ pc = "popped"
    /\ looks_like_trap(canonicalize_url(item[1]))
    /\ trail' = LoopCalls(TRUE, FALSE, NoResult)
    /\ pc' = "loop"
    /\ UNCHANGED <<qvars, hvars, seedIdx, item, links, rows, csv, waited,
                   crashes, poppedBefore, poppedRun, fetched, fetches>>

\* not allowed(USER_AGENT, can_url): continue.  The verdict of the site's
\* robots.txt on the URL is an input, so the step is possible for any URL.
RunSkipRobots ==
    /\ pc = "popped"
    /\ ~looks_like_trap(canonicalize_url(item[1]))
    /\ trail' = LoopCalls(FALSE, FALSE, NoResult)
    /\ pc' = "loop"
    /\ UNCHANGED <<qvars, hvars, seedIdx, item, links, rows, csv, waited,
                   crashes, poppedBefore, poppedRun, fetched, fetches>>

\* the history of a fetch of the popped URL
NoteFetch ==
    /\ fetched' = fetched \cup {item[1]}
    /\ fetches' = [fetches EXCEPT ![_domain(item[1])] = @ + 1]
    /\ UNCHANGED <<poppedBefore, poppedRun>>

\* rl.wait(can_url); fetch(can_url) returned no html: continue
RunFetchFailed ==
    /\ pc = "popped"
    /\ ~looks_like_trap(canonicalize_url(item[1]))
    /\ \E res \in FetchResults :
         res.html = "" /\ trail' = LoopCalls(FALSE, TRUE, res)
    /\ waited' = waited \cup {canonicalize_url(item[1]).netloc}
    /\ NoteFetch
    /\ pc' = "loop"
    /\ UNCHANGED <<qvars, hvars, seedIdx, item, links, rows, csv, crashes>>

\* rl.wait(can_url); fetch(can_url) returned html: the record is appended to
\* rows and, below the depth cap, the page's links are filtered for pushing
RunFetched ==
    /\ pc = "popped"
    /\ ~looks_like_trap(canonicalize_url(item[1]))
    /\ \E res \in FetchResults, text_len \in TextLengths :
         /\ res.html # ""
         /\ trail' = LoopCalls(FALSE, TRUE,
                               [code |-> res.code, html |-> res.html,
                                text_len |-> text_len])
    /\ \E kept \in PageLinks(item[1], item[2]) :
         LET can_url == canonicalize_url(item[1])
         IN /\ waited' = waited \cup {can_url.netloc}
            /\ rows' = Append(rows, [uid |-> sha_uid(can_url),
                                     record_type |-> "news",
                                     source |-> item[3], url |-> can_url])
            /\ links' = kept
            /\ pc' = IF kept = <<>> THEN "loop" ELSE "links"
    /\ NoteFetch
    /\ UNCHANGED <<qvars, hvars, seedIdx, item, csv, crashes>>

\* q.push(href, depth+1, source=source, record_type="news")
RunPushLink ==
    /\ pc = "links"
    /\ LET new == CqPush(Head(links), ChildDepth(item[2]), item[3], "news")
       IN /\ queue' = new.rows
          /\ sqlite_sequence' = new.seq
    /\ links' = Tail(links)
    /\ pc' = IF Tail(links) = <<>> THEN "loop" ELSE "links"
    /\ UNCHANGED <<domain_counts, hvars, seedIdx, item, rows, csv, waited,
                   crashes, gvars>>

\* the process dies; run() is started again on the same state.db and csv
Crash ==
    /\ pc \notin {"idle", "done"}
    /\ crashes < MaxCrashes
    /\ crashes' = crashes + 1
    /\ pc' = "seed" /\ seedIdx' = 1 /\ item' = NoItem /\ links' = <<>>
    /\ rows' = <<>> /\ waited' = {}
    /\ domain_counts' = [d \in Domains |-> 0]
    /\ poppedBefore' = poppedBefore \cup poppedRun
    /\ poppedRun' = {}
    /\ fetched' = {}
    /\ fetches' = [d \in Domains |-> 0]
    /\ trail' = <<>>
    /\ UNCHANGED <<queue, sqlite_sequence, hvars, csv>>

\* the variables of the subsystems the crawl model leaves alone
crawlRest ==
    <<rvars, pvars, fvars, bvars, uvars, lvars, svars>>

NextRun ==
    \/ RunSeed /\ UNCHANGED crawlRest
    \/ RunPop /\ UNCHANGED crawlRest
    \/ RunFinish /\ UNCHANGED crawlRest
    \/ RunSkipTrap /\ UNCHANGED crawlRest
    \/ RunSkipRobots /\ UNCHANGED crawlRest
    \/ RunFetchFailed /\ UNCHANGED crawlRest
    \/ RunFetched /\ UNCHANGED crawlRest
    \/ RunPushLink /\ UNCHANGED crawlRest

NextCrawl ==
    \/ NextRun
    \/ Crash /\ UNCHANGED crawlRest

InitCrawl ==
    QueueInit /\ HistoryInit /\ CrawlInit /\ RateIdle /\ PoliteIdle /\ FetchIdle
    /\ RobotsIdle /\ CanonIdle /\ LexIdle /\ ScoreIdle

\* the crawl, with crashes and restarts on the same store
SpecCrawl == InitCrawl /\ [][NextCrawl]_vars

\* one crawl process that runs undisturbed: every step run() can take is
\* eventually taken
LiveCrawl == InitCrawl /\ [][NextRun]_vars /\ WF_vars(NextRun)

-----------------------------------------------------------------------------
(* Claims about the crawl, checked under SpecCrawl and LiveCrawl *)

\* C5: after a crash and a new start of run() on the same store, no URL whose
\* pop an earlier process committed is fetched again.
C5_NoRefetchAfterCrash == fetched \cap poppedBefore = {}

\* C6: in one process the fetches issued for the URLs of one domain never
\* exceed the page budget MAX_PAGES_PER_DOMAIN.
C6_FetchesWithinBudget ==
    \A d \in Domains : fetches[d] <= MAX_PAGES_PER_DOMAIN

\* C15: within one run no two records accumulated in rows have the same uid.
C15_NoDuplicateUid ==
    \A i, j \in DOMAIN rows : rows[i].uid = rows[j].uid => i = j

\* the names of the calls of the pass, in order
TrailCalls == [i \in DOMAIN trail |-> trail[i].call]

\* the pass ended at the trap check or at the robots check
Filtered ==
    /\ trail # <<>>
    /\ \/ trail[1].said
       \/ Len(trail) >= 2 /\ trail[2].call = "allowed" /\ ~trail[2].said

\* C19: a popped URL is fetched only after the trap check on its canonical
\* form said no, robots allowed it and the rate limiter's wait returned, in
\* this order; a URL that looks like a trap or is disallowed by robots is
\* not fetched and causes no wait.
C19_ChecksBeforeFetch ==
    /\ [](\A i \in DOMAIN trail :
            trail[i].call = "fetch" =>
               /\ i = 4
               /\ trail[1] = Call("looks_like_trap", FALSE, 0)
               /\ ~looks_like_trap(canonicalize_url(item[1]))
               /\ trail[2] = Call("allowed", TRUE, 0)
               /\ trail[3].call = "rl.wait")
    /\ [](Filtered => \A i \in DOMAIN trail :
                         trail[i].call \notin {"rl.wait", "fetch"})
    /\ [](trail # <<>> /\ looks_like_trap(canonicalize_url(item[1]))
            => trail[1].said)
    /\ [][(trail = <<>> /\ Filtered')
            => /\ waited' = waited
               /\ fetched' = fetched /\ fetches' = fetches
               /\ rows' = rows]_vars

\* a trap URL was popped and passed over after another URL was fetched: it
\* is not among the fetched
C19_Witness ==
    /\ trail = <<Call("looks_like_trap", TRUE, 0)>>
    /\ fetched # {}
    /\ item[1] \notin fetched
    /\ waited # {}

\* the outcomes of a pass
TrapFiltered == trail # <<>> /\ trail[1].said
RobotsBlocked == TrailCalls = <<"looks_like_trap", "allowed">> /\ ~trail[2].said
FetchFailed ==
    /\ TrailCalls = <<"looks_like_trap", "allowed", "rl.wait", "fetch">>
    /\ ~trail[4].said
Fetched ==
    TrailCalls = <<"looks_like_trap", "allowed", "rl.wait", "fetch",
                   "extract_article", "rows.append">>

\* how many of the four outcomes the pass has
OutcomeCount ==
    Cardinality({k \in 1..4 : \/ k = 1 /\ TrapFiltered
                              \/ k = 2 /\ RobotsBlocked
                              \/ k = 3 /\ FetchFailed
                              \/ k = 4 /\ Fetched})

\* the fetch of the pass returned a 2xx response
FetchedOk ==
    \E i \in DOMAIN trail :
       trail[i].call = "fetch" /\ trail[i].code \in 200..299

\* C20: every pass over a popped item ends in exactly one of trap-filtered,
\* robots-blocked, fetch-failed and fetched, and a record is appended and
\* child links are taken for pushing only when the fetch returned a 2xx
\* response.
C20_RowsOnlyForSuccess ==
    /\ [](trail # <<>> => OutcomeCount = 1)
    /\ [][(Len(rows') > Len(rows) \/ (links = <<>> /\ links' # <<>>))
            => FetchedOk']_vars

\* the steps run() still has to take for an item of the given depth: its pop
\* and its processing and, below the depth cap, a push and the work of each
\* of its MaxLinks children at most
RECURSIVE Work(_)
Work(depth) ==
    2 + (IF depth < CRAWL_DEPTH THEN MaxLinks * (1 + Work(depth + 1)) ELSE 0)

RECURSIVE SumWork(_)
SumWork(tbl) ==
    IF tbl = {} THEN 0
    ELSE LET r == CHOOSE x \in tbl : TRUE
         IN Work(r.depth) + SumWork(tbl \ {r})

\* an upper bound of the steps run() has left
Remaining ==
    (IF pc = "seed"
     THEN (Len(NEWS_SEEDS) - seedIdx + 1) * (1 + Work(0)) ELSE 0)
    + SumWork(queue)
    + (IF pc = "popped" THEN Work(item[2]) - 1 ELSE 0)
    + (IF pc = "links" THEN Len(links) * (1 + Work(item[2] + 1)) ELSE 0)
    + (IF pc = "done" THEN 0 ELSE 1)

\* C7: with finitely many links per page and fetches that return, run()
\* terminates and the frontier is empty when it does; every step of the loop
\* lowers the bound Remaining on the steps left.
C7_CrawlTerminates ==
    /\ <>(pc = "done")
    /\ [](pc = "done" => queue = {})
    /\ [](Remaining >= 0)
    /\ [][Remaining' < Remaining]_vars

\* run() ended after it fetched a seed and children of it
C7_Witness ==
    /\ pc = "done"
    /\ Len(csv) >= 3
    /\ \E i \in DOMAIN csv : csv[i].url = canonicalize_url(UrlXFrag)

\* the rows a step inserts into table queue
NewRows == {r \in queue' : r \notin queue}

\* C21: every item of the frontier has a depth from 0 to CRAWL_DEPTH: seeds
\* enter with depth 0, and a child link is pushed only when the depth of its
\* parent is below CRAWL_DEPTH, with the parent's depth plus one.
C21_DepthWithinCap ==
    /\ [](\A r \in queue : r.depth \in 0..CRAWL_DEPTH)
    /\ [](item # NoItem => item[2] \in 0..CRAWL_DEPTH)
    /\ [][\A r \in NewRows :
             IF pc = "seed" THEN r.depth = 0
             ELSE /\ pc = "links"
                  /\ item[2] < CRAWL_DEPTH
                  /\ r.depth = item[2] + 1]_vars

\* an item of depth CRAWL_DEPTH was popped, fetched and recorded, and none
\* of its links is taken for pushing
C21_Witness ==
    /\ pc = "loop"
    /\ item # NoItem /\ item[2] = CRAWL_DEPTH
    /\ Fetched
    /\ links = <<>>

\* C22: every child URL run() pushes is in canonical form, of the domain of
\* its parent page and no trap, so that links which differ only in what
\* canonicalization drops are one item of the frontier.
C22_ChildrenCanonical ==
    /\ [][pc = "links" =>
             \A r \in NewRows :
                /\ r.url = canonicalize_url(r.url)
                /\ _domain(r.url) = _domain(item[1])
                /\ ~looks_like_trap(canonicalize_url(r.url))]_vars
    /\ [](\A r1, r2 \in queue :
            (r1.depth > 0 /\ r2.depth > 0
             /\ canonicalize_url(r1.url) = canonicalize_url(r2.url))
               => r1 = r2)

\* C29: a fetched document is recorded only if its extracted text meets
\* the minimum length: a page whose extraction yields an empty or too short
\* text gives no row.
C29_NoShortTextRows ==
    [][Len(rows') > Len(rows) =>
          \E i \in DOMAIN trail' :
             /\ trail'[i].call = "extract_article"
             /\ trail'[i].code > MinTextLen]_vars

-----------------------------------------------------------------------------
(* rate_limit.py: DomainRateLimiter.  Times are in tenths of a second.     *)

\* config.DEFAULT_MIN_DELAY_S = 3.0
DEFAULT_MIN_DELAY_S == 30

\* config.PER_DOMAIN_MIN_DELAY = {"old.reddit.com": 8.0, "reddit.com": 8.0}
PER_DOMAIN_MIN_DELAY == [h \in {"old.reddit.com", "reddit.com"} |-> 80]

\* the default jitter range of wait: (0.3, 1.2)
JitterLo == 3
JitterHi == 12

\* the values random.uniform(*jitter) is sampled at
Jitters == {JitterLo, JitterHi}

\* by how much a time.sleep may oversleep
Oversleeps == {0, 1}

\* the time that may pass between two wait calls (the fetch, the extraction)
Elapses == {1, 90}

\* the Crawl-delay values a robots.txt may give
RobotsDelays == {NoDelay, 50, 100}

\* time.time() when the process starts; later than any delay
StartTime == 1000

\* the most wait calls of a behaviour
MaxWaits == 3

UrlReddit == Url("https", "old.reddit.com", <<"/", "r", "/", "news", "/">>, <<>>, "")

\* the URLs wait is called with: run() passes canonical URLs
WaitUrls == {UrlRoot, UrlReddit}

\* robots.crawl_delay(USER_AGENT, url): the cached policy's Crawl-delay or None
crawl_delay(url) == robots_delay[url.netloc]

\* DomainRateLimiter._min_delay
_min_delay(url) ==
    LET host == url.netloc
    IN IF host \in DOMAIN PER_DOMAIN_MIN_DELAY THEN PER_DOMAIN_MIN_DELAY[host]
       ELSE IF crawl_delay(url) # NoDelay THEN crawl_delay(url)
       ELSE DEFAULT_MIN_DELAY_S

\* self.last_time.get(host, 0.0)
LastTime(host) == IF last_time[host] = NoTime THEN 0 ELSE last_time[host]

ToSleepNoLast(last, need, t) == Max(0, need - t)

\* to_sleep = max(0.0, (last + need) - now)
ToSleep(last, need, t) == Max(0, (last + need) - t)

\* rl = DomainRateLimiter() in a process whose hosts' robots.txt are as chosen
RateInit ==
    /\ now = StartTime /\ nWaits = 0 /\ ticked = FALSE
    /\ last_time = [h \in RateHosts |-> NoTime]
    /\ prev_time = [h \in RateHosts |-> NoTime]
    /\ robots_delay \in [RateHosts -> RobotsDelays]

\* DomainRateLimiter.wait(url): the pacing sleep, the jitter sleep, and the
\* stamp of the time at which it returns
Wait(url) ==
    /\ nWaits < MaxWaits
    /\ \E jit \in Jitters, over \in Oversleeps :
         LET host == url.netloc
             to_sleep == ToSleep(LastTime(host), _min_delay(url), now)
             back == now + (IF to_sleep > 0 THEN to_sleep + over ELSE 0) + jit
         IN /\ now' = back
            /\ last_time' = [last_time EXCEPT ![host] = back]
            /\ prev_time' = [prev_time EXCEPT ![host] = last_time[host]]
    /\ nWaits' = nWaits + 1
    /\ ticked' = FALSE
    /\ UNCHANGED robots_delay

\* the caller fetches and processes: time passes until the next wait call
Elapse ==
    /\ ~ticked
    /\ nWaits < MaxWaits
    /\ \E dt \in Elapses : now' = now + dt
    /\ ticked' = TRUE
    /\ UNCHANGED <<last_time, robots_delay, prev_time, nWaits>>

\* the variables of the subsystems the rate limiter model leaves alone
rateRest ==
    <<qvars, hvars, cvars, gvars, pvars, fvars, bvars, uvars, lvars, svars>>

InitRate ==
    QueueInit /\ HistoryInit /\ CrawlIdle /\ RateInit /\ PoliteIdle /\ FetchIdle
    /\ RobotsIdle /\ CanonIdle /\ LexIdle /\ ScoreIdle

NextRate ==
    \/ \E url \in WaitUrls : Wait(url) /\ UNCHANGED rateRest
    \/ Elapse /\ UNCHANGED rateRest

SpecRate == InitRate /\ [][NextRate]_vars

\* C8: two consecutive wait calls for one origin return at least that origin's
\* minimum delay apart, and so do the two fetches issued right after them.
C8_WaitSpacing ==
    \A url \in WaitUrls :
       prev_time[url.netloc] # NoTime =>
          last_time[url.netloc] - prev_time[url.netloc] >= _min_delay(url)

\* a second wait for a host came so soon after the first that it had to sleep
C8_Witness ==
    \E url \in WaitUrls :
       /\ prev_time[url.netloc] # NoTime
       /\ last_time[url.netloc] - prev_time[url.netloc]
            <= _min_delay(url) + JitterHi + 1
       /\ now = last_time[url.netloc]

\* the configured minimum delay of an origin: its entry of
\* PER_DOMAIN_MIN_DELAY, none (0) for an origin without entry
ConfiguredMinDelay(host) ==
    IF host \in DOMAIN PER_DOMAIN_MIN_DELAY THEN PER_DOMAIN_MIN_DELAY[host]
    ELSE 0

\* max(configured minimum, robots crawl-delay or default); DomainRateLimiter
\* has no adaptive extra delay
StatedDelay(url) ==
    Max(ConfiguredMinDelay(url.netloc),
        IF robots_delay[url.netloc] # NoDelay THEN robots_delay[url.netloc]
        ELSE DEFAULT_MIN_DELAY_S)

\* C23: the delay the rate limiter enforces for an origin is max(configured
\* minimum delay of the origin, robots crawl-delay if given else the default
\* delay) plus the origin's adaptive extra delay: two consecutive waits for
\* the origin return at least that far apart.
C23_EnforcedDelay ==
    \A url \in WaitUrls :
       prev_time[url.netloc] # NoTime =>
          last_time[url.netloc] - prev_time[url.netloc] >= StatedDelay(url)

-----------------------------------------------------------------------------
(* utils/polite_fetch.py: PoliteSession.  Times are in tenths of a second. *)

\* the dataclass defaults of PoliteSession
max_retries == 4
min_interval == 10
max_extra_delay == 100
polite_jitter == 3

\* the steps of the adaptive slowdown: +2.0 on a 429, -0.5 on a 200
ExtraStep == 20
ExtraDecay == 5

\* int(response.headers.get('Retry-After', 30)) without the header
DefaultRetryAfter == 300

\* the Retry-After header of a response: absent, delay-seconds ("7"), or an
\* HTTP-date, its two forms in HTTP
RetryAfters == {"absent", "seconds", "date"}
RetryAfterSeconds == 70

\* Retry(total=5, status_forcelist=[429, 500, 502, 503, 504]) of the adapter
\* __post_init__ mounts on the session
RetryTotal == 5
status_forcelist == {429, 500, 502, 503, 504}

\* what one HTTP request of the session ends in at the origin: a response
\* with its status and Retry-After header, or a connection error or timeout
SessionOutcomes ==
    [kind : {"resp"}, status : {200, 204, 404, 501, 503},
     retry_after : {"absent"}]
    \cup [kind : {"resp"}, status : {429}, retry_after : RetryAfters]
    \cup {[kind |-> "exc", status |-> 0, retry_after |-> "absent"]}

\* backoff_base ** attempt for backoff_base = 1.6, rounded to tenths
BackoffTable == <<10, 16, 26, 41, 66>>

\* random.uniform(0, self.jitter), sampled at its ends
PoliteJitters == {0, polite_jitter}

\* now - last_request_ts[netloc] when get() is called
PoliteElapsed == {0, 500}

\* the Crawl-delay lines a robots.txt may hold for the agent
TextDelays == {NoDelay, 30}

\* self._crawl_delay_from_text(netloc) or base
CrawlDelayOrBase(netloc) ==
    IF text_delay[netloc] \in {NoDelay, 0} THEN min_interval
    ELSE text_delay[netloc]

\* the value cd of _effective_delay
CachedDelay(netloc) ==
    IF domain_delay[netloc] # NoDelay THEN domain_delay[netloc]
    ELSE CrawlDelayOrBase(netloc)

\* PoliteSession._effective_delay: the value it returns
_effective_delay(netloc) ==
    Max(min_interval, CachedDelay(netloc))
      + Min(adaptive_extra[netloc], max_extra_delay)

\* PoliteSession._effective_delay: the cache entry it leaves
DelayCached(netloc) ==
    IF domain_delay[netloc] # NoDelay THEN domain_delay
    ELSE [domain_delay EXCEPT
            ![netloc] = Max(CrawlDelayOrBase(netloc), min_interval)]

\* min(self.max_extra_delay, self.adaptive_extra.get(netloc, 0) + 2.0)
RaiseExtra(extra) == Min(max_extra_delay, extra + ExtraStep)

\* max(0, self.adaptive_extra.get(netloc, 0) - 0.5)
LowerExtra(extra) == Max(0, extra - ExtraDecay)

\* a PoliteSession is made; each site's robots.txt is what it is
PoliteInit ==
    /\ adaptive_extra = [h \in PoliteHosts |-> 0]
    /\ domain_delay = [h \in PoliteHosts |-> NoDelay]
    /\ text_delay \in [PoliteHosts -> TextDelays]
    /\ has_ts = {} /\ ppc = "idle" /\ pnetloc = "" /\ pattempt = 0
    /\ pcalls = 0 /\ presult = "" /\ lastResp = NoResp /\ pslept = 0
    /\ pretriable = TRUE /\ aleft = 0 /\ wire = 0

\* get(url), up to the robots check: the pacing sleep of a netloc that was
\* requested before
GetPacing(netloc) ==
    /\ ppc = "idle"
    /\ pnetloc' = netloc
    /\ IF netloc \in has_ts
       THEN /\ domain_delay' = DelayCached(netloc)
            /\ \E elapsed \in PoliteElapsed :
                 pslept' = Max(0, _effective_delay(netloc) - elapsed)
       ELSE UNCHANGED <<domain_delay, pslept>>
    /\ lastResp' = NoResp
    /\ pcalls' = 0
    /\ pretriable' = TRUE
    /\ pattempt' = 0
    /\ aleft' = RetryTotal
    /\ wire' = 0
    /\ UNCHANGED <<adaptive_extra, text_delay, has_ts>>

\* get(url): can_fetch(url) holds and the retry loop is entered
GetStart(netloc) ==
    /\ GetPacing(netloc)
    /\ ppc' = "try"
    /\ presult' = ""

\* get(url): robots.txt disallows the URL, get returns None
GetBlocked(netloc) ==
    /\ GetPacing(netloc)
    /\ ppc' = "idle"
    /\ presult' = "none"

\* the loop of get() goes on to the next attempt, or runs out and returns None
NextAttempt ==
    IF pattempt = max_retries
    THEN ppc' = "idle" /\ presult' = "none" /\ UNCHANGED pattempt
    ELSE pattempt' = pattempt + 1 /\ UNCHANGED <<ppc, presult>>

\* the adapter hands the response to get(): its status is none the adapter
\* retries on
Delivered(out) == out.kind = "resp" /\ out.status \notin status_forcelist

\* the adapter keeps the outcome to itself: a connection error or a status
\* of status_forcelist
Retried(out) == ~Delivered(out)

\* session.get is still running: the adapter has retries left, sends the
\* request again and get() sees nothing of the outcome
AdapterRetry ==
    \E out \in SessionOutcomes :
       /\ ppc = "try"
       /\ Retried(out)
       /\ aleft > 0
       /\ aleft' = aleft - 1
       /\ wire' = wire + 1
       /\ lastResp' = out
       /\ UNCHANGED <<adaptive_extra, domain_delay, text_delay, has_ts, ppc,
                      pnetloc, pattempt, pcalls, presult, pslept, pretriable>>

\* one iteration of the loop: the jitter sleep and the end of the
\* session.get call
Called(out) ==
    /\ ppc = "try"
    /\ lastResp' = out
    /\ pcalls' = pcalls + 1
    /\ wire' = wire + 1
    /\ aleft' = RetryTotal
    /\ has_ts' = IF Delivered(out) THEN has_ts \cup {pnetloc} ELSE has_ts
    /\ UNCHANGED <<domain_delay, text_delay, pnetloc>>

\* status 200: the adaptive delay decays and the response is returned
Got200 ==
    \E out \in SessionOutcomes :
       /\ Delivered(out) /\ out.status = 200
       /\ Called(out)
       /\ adaptive_extra' =
            [adaptive_extra EXCEPT ![pnetloc] = LowerExtra(@)]
       /\ ppc' = "idle" /\ presult' = "response"
       /\ pretriable' = FALSE
       /\ \E j \in PoliteJitters : pslept' = j
       /\ UNCHANGED pattempt

\* status 429 with a Retry-After that int() accepts (or none): sleep for it,
\* raise the adaptive delay, continue.  The adapter hands no 429 to get().
Got429 ==
    \E out \in SessionOutcomes :
       /\ Delivered(out) /\ out.status = 429 /\ out.retry_after # "date"
       /\ Called(out)
       /\ pslept' = IF out.retry_after = "absent" THEN DefaultRetryAfter
                    ELSE RetryAfterSeconds
       /\ adaptive_extra' =
            [adaptive_extra EXCEPT ![pnetloc] = RaiseExtra(@)]
       /\ NextAttempt
       /\ UNCHANGED pretriable

\* status 429 with an HTTP-date Retry-After: int() raises ValueError, which
\* is no RequestException and leaves get().  The adapter hands no 429 to get().
Got429Raise ==
    \E out \in SessionOutcomes :
       /\ Delivered(out) /\ out.status = 429 /\ out.retry_after = "date"
       /\ Called(out)
       /\ ppc' = "idle" /\ presult' = "raised"
       /\ \E j \in PoliteJitters : pslept' = j
       /\ UNCHANGED <<adaptive_extra, pattempt, pretriable>>

\* status >= 500: back off and continue
Got5xx ==
    \E out \in SessionOutcomes :
       /\ Delivered(out) /\ out.status >= 500
       /\ Called(out)
       /\ \E j \in PoliteJitters : pslept' = BackoffTable[pattempt + 1] + j
       /\ NextAttempt
       /\ UNCHANGED <<adaptive_extra, pretriable>>

\* any other status: get returns None
GotOther ==
    \E out \in SessionOutcomes :
       /\ Delivered(out) /\ out.status \notin {200, 429} /\ out.status < 500
       /\ Called(out)
       /\ ppc' = "idle" /\ presult' = "none"
       /\ pretriable' = FALSE
       /\ \E j \in PoliteJitters : pslept' = j
       /\ UNCHANGED <<adaptive_extra, pattempt>>

\* the classes of requests.exceptions.RequestException session.get raises
RequestExceptions == {"ConnectionError", "Timeout", "RetryError"}

\* what session.get raises when the adapter gives up on the outcome
ExcClass(out) ==
    IF out.kind = "resp" THEN "RetryError"
    ELSE IF out.kind = "timeout" THEN "Timeout"
    ELSE "ConnectionError"

\* an except clause that lets the RetryError pass: a mutation
ExceptCatchesNoRetryError(cls) == cls \in RequestExceptions \ {"RetryError"}

\* except requests.exceptions.RequestException
ExceptCatches(cls) == cls \in RequestExceptions

\* session.get raised a RequestException (a RetryError or ConnectionError of
\* the adapter that has no retry left): back off, next attempt
GotException ==
    \E out \in SessionOutcomes :
       /\ Retried(out)
       /\ aleft = 0
       /\ Called(out)
       /\ IF ExceptCatches(ExcClass(out))
          THEN /\ \E j \in PoliteJitters :
                    pslept' = BackoffTable[pattempt + 1] + j
               /\ NextAttempt
          ELSE /\ ppc' = "idle" /\ presult' = "raised"
               /\ \E j \in PoliteJitters : pslept' = j
               /\ UNCHANGED pattempt
       /\ UNCHANGED <<adaptive_extra, pretriable>>

\* the variables of the subsystems the PoliteSession model leaves alone
politeRest ==
    <<qvars, hvars, cvars, gvars, rvars, fvars, bvars, uvars, lvars, svars>>

InitPolite ==
    QueueInit /\ HistoryInit /\ CrawlIdle /\ RateIdle /\ PoliteInit /\ FetchIdle
    /\ RobotsIdle /\ CanonIdle /\ LexIdle /\ ScoreIdle

NextPolite ==
    \/ \E h \in PoliteHosts : GetStart(h) /\ UNCHANGED politeRest
    \/ \E h \in PoliteHosts : GetBlocked(h) /\ UNCHANGED politeRest
    \/ Got200 /\ UNCHANGED politeRest
    \/ AdapterRetry /\ UNCHANGED politeRest
    \/ Got5xx /\ UNCHANGED politeRest
    \/ GotOther /\ UNCHANGED politeRest
    \/ GotException /\ UNCHANGED politeRest

SpecPolite == InitPolite /\ [][NextPolite]_vars

\* C9: after a 429 response the origin's effective delay is strictly greater
\* than before it, and after a successful response it is not greater.
C9_DelayFollowsResponses ==
    [][/\ (lastResp'.kind = "resp" /\ lastResp'.status = 429)
            => _effective_delay(pnetloc)' > _effective_delay(pnetloc)
       /\ (lastResp'.kind = "resp" /\ lastResp'.status \in 200..299)
            => _effective_delay(pnetloc)' <= _effective_delay(pnetloc)]_vars

\* C10: a get() whose every attempt ended retriably sent max_retries + 1
\* requests to the endpoint and returned None, and no get() sends more
\* requests than that.
C10_RetryExhaustion ==
    /\ wire <= max_retries + 1
    /\ (ppc = "idle" /\ wire > 0 /\ pretriable)
          => (wire = max_retries + 1 /\ presult = "none")

\* the step brings a response of the origin
Responded == wire' = wire + 1 /\ lastResp'.kind = "resp"

\* adaptive_extra after the step is as before but for the netloc of the
\* request, which has the given value
ExtraBecomes(v) ==
    adaptive_extra' = [adaptive_extra EXCEPT ![pnetloc] = v]

\* C24: adaptive_extra of every origin starts at 0 and stays within
\* [0, max_extra_delay]; each 429 response raises it by 2.0, capped at
\* max_extra_delay, each successful response lowers it by 0.5, floored at 0,
\* and nothing else changes it.
C24_AdaptiveExtraSteps ==
    /\ \A h \in PoliteHosts : adaptive_extra[h] = 0
    /\ [](\A h \in PoliteHosts : adaptive_extra[h] \in 0..max_extra_delay)
    /\ [][IF Responded /\ lastResp'.status = 429
           THEN ExtraBecomes(Min(max_extra_delay,
                                 adaptive_extra[pnetloc] + ExtraStep))
           ELSE IF Responded /\ lastResp'.status \in 200..299
           THEN ExtraBecomes(Max(0, adaptive_extra[pnetloc] - ExtraDecay))
           ELSE adaptive_extra' = adaptive_extra]_vars

-----------------------------------------------------------------------------
(* crawler/downloader.py: fetch.  Times are in tenths of a second. *)

RETRY_MAX == 3

\* BACKOFF_BASE ** attempt for BACKOFF_BASE = 1.8 and attempt = 1..4
FetchBackoff == <<18, 32, 58, 105>>

\* the statuses fetch retries on
RetriableCodes == {429, 503, 502, 500, 408}

\* what one session.get call of fetch ends in
FetchOutcomes ==
    [kind : {"resp"}, status : {200, 204, 301, 404, 410, 508},
     retry_after : {"absent"}]
    \cup [kind : {"resp"}, status : RetriableCodes, retry_after : RetryAfters]
    \cup [kind : {"timeout", "exc"}, status : {0}, retry_after : {"absent"}]

\* backoff = max(float(ra), backoff) when the header is there and float()
\* takes it; an exception of float() is passed over
AfterRetryAfter(ra, b) ==
    IF ra = "seconds" THEN Max(RetryAfterSeconds, b) ELSE b

\* backoff = max(1.0, BACKOFF_BASE ** attempt), whatever backoff was
NextBackoff(b, a) == Max(10, FetchBackoff[a])

\* fetch(url) is called
FetchStart ==
    /\ fpc = "idle"
    /\ fpc' = "loop"
    /\ attempt' = 0 /\ backoff' = 0 /\ fcalls' = 0 /\ fslept' = 0
    /\ fresult' = "" /\ fout' = NoResp /\ fretriable' = TRUE

\* one iteration of the while loop: the sleep and the session.get call
FetchCalled(out) ==
    /\ fpc = "loop"
    /\ attempt <= RETRY_MAX
    /\ fslept' = backoff
    /\ fcalls' = fcalls + 1
    /\ fout' = out

\* attempt += 1 and the new backoff; the loop ends when attempt > RETRY_MAX
\* and fetch returns None, None, None
FetchRetry(b) ==
    /\ attempt' = attempt + 1
    /\ backoff' = NextBackoff(b, attempt + 1)
    /\ IF attempt + 1 <= RETRY_MAX
       THEN UNCHANGED <<fpc, fresult>>
       ELSE fpc' = "idle" /\ fresult' = "none"

\* a 2xx, 3xx or other status: code, resp.url, resp.text is returned
FetchReturned ==
    \E out \in FetchOutcomes :
       /\ out.kind = "resp" /\ out.status \notin RetriableCodes
       /\ FetchCalled(out)
       /\ fpc' = "idle" /\ fresult' = "tuple"
       /\ fretriable' = FALSE
       /\ UNCHANGED <<attempt, backoff>>

\* a status of RetriableCodes
FetchRetriable ==
    \E out \in FetchOutcomes :
       /\ out.kind = "resp" /\ out.status \in RetriableCodes
       /\ FetchCalled(out)
       /\ FetchRetry(AfterRetryAfter(out.retry_after, backoff))
       /\ UNCHANGED fretriable

\* except requests.Timeout / except requests.RequestException
FetchCatches(cls) == cls \in RequestExceptions

\* requests.Timeout or another RequestException
FetchError ==
    \E out \in FetchOutcomes :
       /\ out.kind \in {"timeout", "exc"}
       /\ FetchCalled(out)
       /\ IF FetchCatches(ExcClass(out))
          THEN FetchRetry(backoff)
          ELSE /\ fpc' = "idle" /\ fresult' = "raised"
               /\ UNCHANGED <<attempt, backoff>>
       /\ UNCHANGED fretriable

\* the variables of the subsystems the fetch model leaves alone
fetchRest ==
    <<qvars, hvars, cvars, gvars, rvars, pvars, bvars, uvars, lvars, svars>>

InitFetch ==
    QueueInit /\ HistoryInit /\ CrawlIdle /\ RateIdle /\ PoliteIdle /\ FetchIdle
    /\ RobotsIdle /\ CanonIdle /\ LexIdle /\ ScoreIdle

NextFetch ==
    \/ FetchStart /\ UNCHANGED fetchRest
    \/ FetchReturned /\ UNCHANGED fetchRest
    \/ FetchRetriable /\ UNCHANGED fetchRest
    \/ FetchError /\ UNCHANGED fetchRest

SpecFetch == InitFetch /\ [][NextFetch]_vars

\* a process fetches with one of the two fetchers: run() of
\* crawler/news_crawler.py with fetch, crawl_news() of crawl/news_crawl.py
\* with a PoliteSession
PoliteUnused == ppc = "idle" /\ presult = ""
FetchUnused == fpc = "idle" /\ fresult = ""

InitNet ==
    /\ QueueInit /\ HistoryInit /\ CrawlIdle /\ RateIdle /\ PoliteInit
    /\ FetchIdle /\ RobotsIdle /\ CanonIdle /\ LexIdle /\ ScoreIdle

NextNet ==
    \/ FetchUnused /\ NextPolite
    \/ PoliteUnused /\ NextFetch

SpecNet == InitNet /\ [][NextNet]_vars

\* C12: whatever the requests of a fetch end in, the fetcher does not raise:
\* a finished fetch(url) has returned a tuple or the none-tuple, a finished
\* get(url) a response or None.
C12_FetchNeverRaises ==
    /\ presult \in {"", "none", "response"}
    /\ fresult \in {"", "none", "tuple"}

\* a get() that gave up after its last request was answered 429 with an
\* HTTP-date Retry-After
C12_Witness ==
    /\ ppc = "idle" /\ presult = "none" /\ pcalls = max_retries + 1
    /\ lastResp.status = 429 /\ lastResp.retry_after = "date"

\* fetch alone: a call whose every attempt ended retriably made RETRY_MAX + 1
\* attempts and returned the none-tuple, and no call makes more attempts
FetchExhaustion ==
    /\ fcalls <= RETRY_MAX + 1
    /\ (fpc = "idle" /\ fcalls > 0 /\ fretriable)
          => (fcalls = RETRY_MAX + 1 /\ fresult = "none")

\* the outcomes stated to be retriable: a timeout, a connection error, and
\* the statuses 429, 500, 502, 503 and 508
StatedRetriable(out) ==
    \/ out.kind \in {"timeout", "exc"}
    \/ out.kind = "resp" /\ out.status \in {429, 500, 502, 503, 508}

\* C25: fetch makes a further attempt, while attempts remain, exactly when
\* the attempt ended in a timeout, a connection error or a status of 429,
\* 500, 502, 503, 508; a 2xx, 3xx or other 4xx status is returned to the
\* caller after that one attempt.
C25_RetriesExactlyOnRetriable ==
    [][fcalls' = fcalls + 1 =>
          /\ (StatedRetriable(fout') /\ attempt < RETRY_MAX) => fpc' = "loop"
          /\ ~StatedRetriable(fout') =>
                (fpc' = "idle" /\ fresult' = "tuple")]_vars

\* the seconds of a Retry-After header, 0 when the response has none that
\* gives seconds
RetryAfterOf(out) ==
    IF out.retry_after = "seconds" THEN RetryAfterSeconds ELSE 0

\* C26: when a 429 or 503 response carries a Retry-After value r, the sleep
\* of the fetcher before its next attempt on the URL is at least r.
C26_SleepAtLeastRetryAfter ==
    [][(/\ fcalls' = fcalls + 1
        /\ fout.kind = "resp" /\ fout.status \in {429, 503})
          => fslept' >= RetryAfterOf(fout)]_vars

-----------------------------------------------------------------------------
(* crawler/robots.py over urllib.robotparser.RobotFileParser *)

\* what urlopen(root + "/robots.txt") ends in: a URLError (no connection),
\* an HTTPError status, or a 200 whose body holds rules, holds no rule line
\* at all, or is not UTF-8
RobotsOutcomes ==
    {[kind |-> "urlerror", status |-> 0, body |-> "none"]}
    \cup [kind : {"http"}, status : {401, 404, 503}, body : {"none"}]
    \cup [kind : {"http"}, status : {200},
          body : {"rules", "garbage", "undecodable"}]

\* the path a "rules" body disallows for every agent, and its Crawl-delay
DisallowedPath == <<"/", "x">>
RulesDelay == 50

\* RobotFileParser(): the parser before read()
FreshParser ==
    [read |-> TRUE, disallow_all |-> FALSE, allow_all |-> FALSE,
     last_checked |-> FALSE, disallow |-> {}, delay |-> NoDelay]

\* r.read() under "except Exception: pass": an HTTPError sets disallow_all
\* for 401 and 403 and allow_all for the other 4xx; a URLError and a
\* UnicodeDecodeError leave read() before parse(); parse() sets last_checked
\* and keeps the rule lines it knows
ReadParser(out) ==
    IF out.kind = "urlerror" THEN FreshParser
    ELSE IF out.status \in {401, 403}
         THEN [FreshParser EXCEPT !.disallow_all = TRUE]
    ELSE IF out.status >= 400 /\ out.status < 500
         THEN [FreshParser EXCEPT !.allow_all = TRUE]
    ELSE IF out.status # 200 THEN FreshParser
    ELSE IF out.body = "undecodable" THEN FreshParser
    ELSE IF out.body = "rules"
         THEN [FreshParser EXCEPT !.last_checked = TRUE,
                                  !.disallow = {DisallowedPath},
                                  !.delay = RulesDelay]
    ELSE [FreshParser EXCEPT !.last_checked = TRUE]

\* a rule path is a prefix of the URL's path
PathPrefix(pre, path) ==
    /\ Len(pre) <= Len(path)
    /\ \A i \in 1..Len(pre) : pre[i] = path[i]

\* RobotFileParser.can_fetch
can_fetch(parser, url) ==
    IF parser.disallow_all THEN FALSE
    ELSE IF parser.allow_all THEN TRUE
    ELSE IF ~parser.last_checked THEN FALSE
    ELSE ~(\E pre \in parser.disallow : PathPrefix(pre, url.path))

\* RobotFileParser.crawl_delay
parser_crawl_delay(parser) ==
    IF ~parser.last_checked THEN NoDelay ELSE parser.delay

\* the site that answers for a root
SiteOf(root) == Lower(root[2])

\* _get_parser under lru_cache: the parser of the root
_get_parser(root) ==
    IF robots_cache[root] # Unread THEN robots_cache[root]
    ELSE ReadParser(robots_site[SiteOf(root)])

\* _get_parser under lru_cache: the cache and the requests it leaves
GetParserEffect(root) ==
    IF robots_cache[root] # Unread
    THEN UNCHANGED <<robots_cache, robots_reads>>
    ELSE /\ robots_cache' = [robots_cache EXCEPT ![root] = _get_parser(root)]
         /\ robots_reads' = [robots_reads EXCEPT ![SiteOf(root)] = @ + 1]

\* allowed(user_agent, url)
allowed(url) ==
    /\ GetParserEffect(rootsite(url))
    /\ rq' = [op |-> "allowed", url |-> url,
              allowed |-> can_fetch(_get_parser(rootsite(url)), url),
              delay |-> NoDelay]
    /\ UNCHANGED <<robots_site, ps_robots_cache, ps_robots_text>>

\* crawl_delay(user_agent, url)
CrawlDelay(url) ==
    /\ GetParserEffect(rootsite(url))
    /\ rq' = [op |-> "crawl_delay", url |-> url, allowed |-> TRUE,
              delay |-> parser_crawl_delay(_get_parser(rootsite(url)))]
    /\ UNCHANGED <<robots_site, ps_robots_cache, ps_robots_text>>

\* PoliteSession.can_fetch(url): _robot_parser reads the robots.txt of a
\* netloc that has no entry in robots_cache
PsCanFetch(url) ==
    /\ IF url.netloc \in ps_robots_cache
       THEN UNCHANGED <<ps_robots_cache, robots_reads>>
       ELSE /\ ps_robots_cache' = ps_robots_cache \cup {url.netloc}
            /\ robots_reads' = [robots_reads EXCEPT ![Lower(url.netloc)] = @ + 1]
    /\ rq' = [op |-> "can_fetch", url |-> url,
              allowed |-> can_fetch(ReadParser(robots_site[Lower(url.netloc)]),
                                    url),
              delay |-> NoDelay]
    /\ UNCHANGED <<robots_site, robots_cache, ps_robots_text>>

\* the Crawl-delay the small parser of _crawl_delay_from_text finds in the
\* text _fetch_robots_text kept: "" unless the answer was a 200 with a body
TextCrawlDelay(out) ==
    IF out.kind = "http" /\ out.status = 200 /\ out.body = "rules"
    THEN RulesDelay ELSE NoDelay

\* PoliteSession._crawl_delay_from_text(netloc), the delay query of
\* _effective_delay: _fetch_robots_text requests the robots.txt of a netloc
\* that has no entry in robots_text
PsCrawlDelayFromText(url) ==
    /\ IF url.netloc \in ps_robots_text
       THEN UNCHANGED <<ps_robots_text, robots_reads>>
       ELSE /\ ps_robots_text' = ps_robots_text \cup {url.netloc}
            /\ robots_reads' = [robots_reads EXCEPT ![Lower(url.netloc)] = @ + 1]
    /\ rq' = [op |-> "delay", url |-> url, allowed |-> TRUE,
              delay |-> TextCrawlDelay(robots_site[Lower(url.netloc)])]
    /\ UNCHANGED <<robots_site, robots_cache, ps_robots_cache>>

\* a process starts: every site answers for its robots.txt in some way
RobotsInit ==
    /\ robots_site \in [Domains -> RobotsOutcomes]
    /\ robots_cache = [r \in RobotsRoots |-> Unread]
    /\ robots_reads = [o \in Domains |-> 0]
    /\ rq = NoQuery
    /\ ps_robots_cache = {} /\ ps_robots_text = {}

\* the variables of the subsystems the robots model leaves alone
robotsRest ==
    <<qvars, hvars, cvars, gvars, rvars, pvars, fvars, uvars, lvars, svars>>

InitRobots ==
    /\ QueueInit /\ HistoryInit /\ CrawlIdle /\ RateIdle /\ PoliteIdle
    /\ FetchIdle /\ RobotsInit /\ CanonIdle /\ LexIdle /\ ScoreIdle

NextRobots ==
    \/ \E u \in RobotsUrls : allowed(u) /\ UNCHANGED robotsRest
    \/ \E u \in RobotsUrls : CrawlDelay(u) /\ UNCHANGED robotsRest
    \/ \E u \in RobotsUrls : PsCanFetch(u) /\ UNCHANGED robotsRest
    \/ \E u \in RobotsUrls : PsCrawlDelayFromText(u) /\ UNCHANGED robotsRest

SpecRobots == InitRobots /\ [][NextRobots]_vars

\* the robots.txt of the site cannot be obtained or used
Unusable(out) ==
    \/ out.kind = "urlerror"
    \/ out.status # 200
    \/ out.body \in {"garbage", "undecodable"}

\* C11: when the robots.txt of an origin cannot be obtained or used, allowed
\* answers true for every URL of the origin and crawl_delay answers none.
C11_RobotsFailOpen ==
    (rq.op \in {"allowed", "crawl_delay"}
     /\ Unusable(robots_site[_domain(rq.url)]))
        => (rq.allowed /\ rq.delay = NoDelay)

\* C27: for any sequence of allowed, crawl_delay, can_fetch and delay
\* queries in one process, the robots.txt of each origin is requested at most
\* once; every later query is answered from the cached policy.
C27_RobotsReadOnce == \A o \in Domains : robots_reads[o] <= 1

-----------------------------------------------------------------------------
(* canonicalize_url applied to URLs, once, twice, and to two alike URLs *)

\* the longest query of an input URL, in parameters
MaxQuery == 2

\* the keys and values of the query parameters of the inputs, as written in
\* the URL
RawKeys == {"a", "%61", "utm_source", "utm_id"}
RawValues == {"1", "a+b"}
RawPairs == RawKeys \X RawValues

\* the queries of at most MaxQuery parameters
RawQueries == UNION {[1..n -> RawPairs] : n \in 0..MaxQuery}

CanonPaths == {<<>>, <<"/">>, <<"/", "x">>, <<"/", "/", "x">>}

\* the URLs canonicalize_url is given
CanonInputs ==
    {Url(sc, nl, pa, qu, fr) :
        sc \in {"https", "HTTPS"}, nl \in {"a.com", "A.com"},
        pa \in CanonPaths, qu \in RawQueries, fr \in {"", "top"}}

\* a key of a tracking parameter: utm_*, gclid, fbclid, igshid
IsTrackingKey(key) ==
    key \in {"utm_source", "utm_medium", "utm_campaign", "utm_term",
             "utm_content", "utm_id", "gclid", "fbclid", "igshid"}

\* the parameters of a query that are no tracking parameters
NonTracking(query) == SelectSeq(query, LAMBDA kv : ~IsTrackingKey(kv[1]))

\* the queries made of query by reordering it and by adding, removing or
\* changing tracking parameters
RECURSIVE Reverse(_)
Reverse(seq) ==
    IF seq = <<>> THEN <<>> ELSE Reverse(Tail(seq)) \o <<Head(seq)>>

AlikeQueries(query) ==
    {query, Reverse(query), NonTracking(query), Reverse(NonTracking(query))}
    \cup {NonTracking(query) \o <<kv>> :
             kv \in {pr \in RawPairs : IsTrackingKey(pr[1])}}
    \cup {<<kv>> \o NonTracking(query) :
             kv \in {pr \in RawPairs : IsTrackingKey(pr[1])}}

\* the URLs that differ from url only in fragment, tracking parameters, the
\* order of the query parameters and the letter case of scheme and host
AlikeUrls(url) ==
    {Url(sc, nl, url.path, qu, fr) :
        sc \in {t \in {"https", "HTTPS"} : Lower(t) = Lower(url.scheme)},
        nl \in {t \in {"a.com", "A.com"} : Lower(t) = Lower(url.netloc)},
        qu \in AlikeQueries(url.query), fr \in {"", "top"}}

\* a caller holds a URL
CanonInit ==
    /\ cop = "input" /\ cin \in CanonInputs /\ cout = NoUrl /\ cprev = NoUrl
    /\ cin2 = NoUrl /\ cout2 = NoUrl

\* canonicalize_url(cin)
Canonicalize ==
    /\ cop = "input"
    /\ cop' = "once"
    /\ cout' = canonicalize_url(cin)
    /\ UNCHANGED <<cin, cprev, cin2, cout2>>

\* canonicalize_url of the result of the call before
CanonicalizeAgain ==
    /\ cop = "once"
    /\ cop' = "twice"
    /\ cprev' = cout
    /\ cout' = canonicalize_url(cout)
    /\ UNCHANGED <<cin, cin2, cout2>>

\* canonicalize_url of cin and of a URL alike
CanonicalizePair ==
    /\ cop = "input"
    /\ \E other \in AlikeUrls(cin) :
          /\ cin2' = other
          /\ cout2' = canonicalize_url(other)
    /\ cop' = "pair"
    /\ cout' = canonicalize_url(cin)
    /\ UNCHANGED <<cin, cprev>>

\* the variables of the subsystems the canonicalization model leaves alone
canonRest ==
    <<qvars, hvars, cvars, gvars, rvars, pvars, fvars, bvars, lvars, svars>>

InitCanon ==
    /\ QueueInit /\ HistoryInit /\ CrawlIdle /\ RateIdle /\ PoliteIdle
    /\ FetchIdle /\ RobotsIdle /\ CanonInit /\ LexIdle /\ ScoreIdle

NextCanon ==
    \/ Canonicalize /\ UNCHANGED canonRest
    \/ CanonicalizeAgain /\ UNCHANGED canonRest
    \/ CanonicalizePair /\ UNCHANGED canonRest

SpecCanon == InitCanon /\ [][NextCanon]_vars

\* C13: canonicalize_url is idempotent: applied to its own result it returns
\* that result.
C13_CanonIdempotent == cop = "twice" => cout = cprev

\* an input whose two percent-encoded, unsorted parameters the first call
\* decoded and sorted, with a tracking parameter and a double slash gone
C13_Witness ==
    /\ cop = "twice"
    /\ cin.query = <<<<"a", "a+b">>, <<"%61", "1">>>>
    /\ cin.path = <<"/", "/", "x">>
    /\ cin.netloc = "A.com"
    /\ cout.query = <<<<"a", "1">>, <<"a", "a+b">>>>
    /\ cout # cin

\* C14: two URLs that differ only in fragment, tracking parameters, order of
\* the query parameters or letter case of scheme and host canonicalize to
\* the same URL.
C14_AlikeUrlsCanonicalizeSame == cop = "pair" => cout = cout2

-----------------------------------------------------------------------------
(* classify/reuters_build_lexicon.py and ml/tfidf_Lexicon_Classifier.py *)

\* the most documents of a corpus
MaxDocs == 5

\* "if len(idxs) < 5: continue" of build_lexicon
MinCategoryDocs == 5

\* the terms TfidfVectorizer(ngram_range=(1, 2)) may find, in the order of
\* get_feature_names_out
LexTerms == <<"oil", "oil wheat", "wheat">>

\* the texts of the documents: one no token of which the vectorizer keeps,
\* and two with terms
DocTexts == {"none", "wheat", "oil wheat"}

\* a document: the list of its topics and its text
DocKinds == [labels : {<<"grain">>, <<"grain", "oil">>}, text : DocTexts]

\* the entry of X for a document and a term: positive exactly when the term
\* occurs in the text
Tfidf(text, term) ==
    CASE text = "wheat" /\ term = "wheat" -> 3
      [] text = "oil wheat" /\ term = "oil" -> 2
      [] text = "oil wheat" /\ term = "oil wheat" -> 2
      [] text = "oil wheat" /\ term = "wheat" -> 1
      [] OTHER -> 0

\* the values of top_k and min_df a build is run with
TopKs == {1, 2}
MinDfs == {1, 2}

\* the terms the fitted vectorizer keeps: those in at least min_df documents
FittedTerms(docs, min_df) ==
    {t \in Range(LexTerms) :
        Cardinality({i \in DOMAIN docs : Tfidf(docs[i].text, t) > 0})
            >= min_df}

\* vect.get_feature_names_out()
Vocabulary(docs, min_df) ==
    SelectSeq(LexTerms, LAMBDA t : t \in FittedTerms(docs, min_df))

\* how often a label list names the category
Occurrences(labels, c) == Cardinality({k \in DOMAIN labels : labels[k] = c})

\* cat_docs[c]: the length of the index list of category c over the first n
\* documents
RECURSIVE IdxCount(_, _, _)
IdxCount(docs, c, n) ==
    IF n = 0 THEN 0
    ELSE IdxCount(docs, c, n - 1) + Occurrences(docs[n].labels, c)

\* the keys of cat_docs in the order the loop over labels inserts them
RECURSIVE AppendNew(_, _)
AppendNew(seq, labels) ==
    IF labels = <<>> THEN seq
    ELSE AppendNew(IF Head(labels) \in Range(seq) THEN seq
                   ELSE Append(seq, Head(labels)),
                   Tail(labels))

RECURSIVE CatOrder(_, _)
CatOrder(docs, n) ==
    IF n = 0 THEN <<>>
    ELSE AppendNew(CatOrder(docs, n - 1), docs[n].labels)

\* the column sum of the rows Xcsr[idxs] for a term: the centroid entry
\* times len(idxs)
RECURSIVE ColumnSum(_, _, _, _)
ColumnSum(docs, c, term, n) ==
    IF n = 0 THEN 0
    ELSE ColumnSum(docs, c, term, n - 1)
           + Occurrences(docs[n].labels, c) * Tfidf(docs[n].text, term)

\* Xcsr[idxs].mean(axis=0) over the first n terms of the vocabulary, each
\* entry kept as its column sum
RECURSIVE Centroid(_, _, _, _)
Centroid(docs, c, vocab, n) ==
    IF n = 0 THEN <<>>
    ELSE Append(Centroid(docs, c, vocab, n - 1),
                ColumnSum(docs, c, vocab[n], Len(docs)))

\* the vocabulary by rising weight: a mutation of ArgsortDesc
RECURSIVE ArgsortAsc(_, _)
ArgsortAsc(weight, idxs) ==
    IF idxs = {} THEN <<>>
    ELSE LET low == CHOOSE i \in idxs :
                      \A j \in idxs :
                         \/ weight[j] > weight[i]
                         \/ weight[j] = weight[i] /\ j >= i
         IN <<low>> \o ArgsortAsc(weight, idxs \ {low})

\* np.argsort(centroid)[::-1]: the vocabulary by falling weight, among equal
\* weights the later term first
RECURSIVE ArgsortDesc(_, _)
ArgsortDesc(weight, idxs) ==
    IF idxs = {} THEN <<>>
    ELSE LET top == CHOOSE i \in idxs :
                      \A j \in idxs :
                         \/ weight[j] < weight[i]
                         \/ weight[j] = weight[i] /\ j <= i
         IN <<top>> \o ArgsortDesc(weight, idxs \ {top})

\* seq[:k]
Prefix(seq, k) == SubSeq(seq, 1, Min(k, Len(seq)))

\* the terms list of a category in build_lexicon: (term, weight) for the
\* top_k of the argsort, where the weight is positive; a weight is kept as
\* its column sum and the member count it is divided by
CategoryTerms(docs, vocab, c, top_k) ==
    LET weight == Centroid(docs, c, vocab, Len(vocab))
        top_idx == Prefix(ArgsortDesc(weight, DOMAIN vocab), top_k)
        kept == SelectSeq(top_idx, LAMBDA i : weight[i] > 0)
    IN [k \in DOMAIN kept |->
          [term |-> vocab[kept[k]], sum |-> weight[kept[k]],
           n |-> IdxCount(docs, c, Len(docs))]]

\* no category is passed over: a mutation of SkipsCategory
SkipsCategoryNever(docs, vocab, c) == FALSE

\* whether the loop of build_lexicon passes the category over: too few
\* members, or a centroid that sums to zero
SkipsCategory(docs, vocab, c) ==
    \/ IdxCount(docs, c, Len(docs)) < MinCategoryDocs
    \/ \A i \in DOMAIN vocab : ColumnSum(docs, c, vocab[i], Len(docs)) = 0

\* the lexicon build_lexicon makes: for the categories in the order of
\* cat_docs that are not passed over and have terms, their terms
RECURSIVE LexiconOf(_, _, _, _)
LexiconOf(docs, vocab, cats, top_k) ==
    IF cats = <<>> THEN <<>>
    ELSE LET c == Head(cats)
             terms == CategoryTerms(docs, vocab, c, top_k)
             rest == LexiconOf(docs, vocab, Tail(cats), top_k)
         IN IF SkipsCategory(docs, vocab, c) \/ terms = <<>> THEN rest
            ELSE <<[category |-> c, terms |-> terms]>> \o rest

\* build_lexicon(texts, labels, top_k, min_df): what it raises or returns
build_lexicon(docs, top_k, min_df) ==
    LET vocab == Vocabulary(docs, min_df)
        lexicon == LexiconOf(docs, vocab, CatOrder(docs, Len(docs)), top_k)
    IN IF vocab = <<>>
       THEN [builder |-> "build_lexicon", outcome |-> "empty vocabulary",
             lexicon |-> <<>>, vocabulary |-> <<>>, top_k |-> top_k,
             min_df |-> min_df]
       ELSE IF lexicon = <<>>
       THEN [builder |-> "build_lexicon", outcome |-> "empty lexicon",
             lexicon |-> <<>>, vocabulary |-> <<>>, top_k |-> top_k,
             min_df |-> min_df]
       ELSE [builder |-> "build_lexicon", outcome |-> "ok",
             lexicon |-> lexicon, vocabulary |-> vocab, top_k |-> top_k,
             min_df |-> min_df]

\* min_df of build_vectorizer in ml/tfidf_Lexicon_Classifier.py
MlMinDf == 2

\* filter_single_label: the documents with exactly one topic
SingleLabel(docs) == SelectSeq(docs, LAMBDA doc : Len(doc.labels) = 1)

\* sorted(set(y)) over the categories of the model
SortedLabels(docs) ==
    SelectSeq(<<"grain", "oil">>,
              LAMBDA c : \E i \in DOMAIN docs : docs[i].labels[1] = c)

\* sorted(pairs.items(), key=weight, reverse=True): by falling weight, among
\* equal weights the earlier term first
RECURSIVE SortDescStable(_, _)
SortDescStable(weight, idxs) ==
    IF idxs = {} THEN <<>>
    ELSE LET top == CHOOSE i \in idxs :
                      \A j \in idxs :
                         \/ weight[j] < weight[i]
                         \/ weight[j] = weight[i] /\ j >= i
         IN <<top>> \o SortDescStable(weight, idxs \ {top})

\* the pairs of a label in build_lexicons: the topk largest entries when the
\* vocabulary is longer than topk, else all, keeping the positive ones
LabelPairs(docs, vocab, c, topk) ==
    LET weight == Centroid(docs, c, vocab, Len(vocab))
        top_idx == IF Len(vocab) > topk
                   THEN Range(Prefix(ArgsortDesc(weight, DOMAIN vocab), topk))
                   ELSE DOMAIN vocab
        kept == SortDescStable(weight, {i \in top_idx : weight[i] > 0})
    IN [k \in DOMAIN kept |->
          [term |-> vocab[kept[k]], sum |-> weight[kept[k]],
           n |-> IdxCount(docs, c, Len(docs))]]

\* build_lexicons(X, y, vocab, topk) after the vectorizer was fitted: every
\* label of y gets its pairs
build_lexicons(docs, topk) ==
    LET vocab == Vocabulary(docs, MlMinDf)
        labs == SortedLabels(docs)
    IN IF vocab = <<>>
       THEN [builder |-> "build_lexicons", outcome |-> "empty vocabulary",
             lexicon |-> <<>>, vocabulary |-> <<>>, top_k |-> topk,
             min_df |-> MlMinDf]
       ELSE [builder |-> "build_lexicons", outcome |-> "ok",
             lexicon |-> [k \in DOMAIN labs |->
                            [category |-> labs[k],
                             terms |-> LabelPairs(docs, vocab, labs[k], topk)]],
             vocabulary |-> vocab, top_k |-> topk, min_df |-> MlMinDf]

\* a lexicon file an earlier build has written
OldFile ==
    [written |-> TRUE, vocabulary |-> <<"old">>,
     lexicon |-> <<[category |-> "old",
                    terms |-> <<[term |-> "old", sum |-> 1, n |-> 1]>>]>>]

\* a build starts: no document is read yet; a lexicon file may be there
LexInit ==
    /\ lpc = "load" /\ corpus = <<>> /\ lexfile \in {NoFile, OldFile}
    /\ lexbuilt = NoBuild

\* load_reuters_texts keeps one more article with topics and text
ReadDoc ==
    /\ lpc = "load"
    /\ Len(corpus) < MaxDocs
    /\ \E doc \in DocKinds : corpus' = Append(corpus, doc)
    /\ UNCHANGED <<lpc, lexfile, lexbuilt>>

\* main of reuters_build_lexicon.py: load_reuters_texts raises for no
\* article; else build_lexicon runs, and save_lexicon when it returned
BuildMain ==
    /\ lpc = "load"
    /\ lpc' = "built"
    /\ \E top_k \in TopKs, min_df \in MinDfs :
         IF corpus = <<>>
         THEN /\ lexbuilt' = [NoBuild EXCEPT !.builder = "build_lexicon",
                                             !.outcome = "no articles",
                                             !.top_k = top_k,
                                             !.min_df = min_df]
              /\ UNCHANGED lexfile
         ELSE LET res == build_lexicon(corpus, top_k, min_df)
              IN /\ lexbuilt' = res
                 /\ lexfile' = IF res.outcome = "ok"
                               THEN [written |-> TRUE,
                                     vocabulary |-> res.vocabulary,
                                     lexicon |-> res.lexicon]
                               ELSE lexfile
    /\ UNCHANGED corpus

\* run_reuters_pipeline: build_lexicons over the single-label documents;
\* save_lexicons writes to another directory than the lexicon file
BuildMl ==
    /\ lpc = "load"
    /\ SingleLabel(corpus) # <<>>
    /\ lpc' = "built"
    /\ \E topk \in TopKs : lexbuilt' = build_lexicons(SingleLabel(corpus), topk)
    /\ UNCHANGED <<corpus, lexfile>>

\* the variables of the subsystems the lexicon model leaves alone
lexRest ==
    <<qvars, hvars, cvars, gvars, rvars, pvars, fvars, bvars, uvars, svars>>

InitLex ==
    /\ QueueInit /\ HistoryInit /\ CrawlIdle /\ RateIdle /\ PoliteIdle
    /\ FetchIdle /\ RobotsIdle /\ CanonIdle /\ LexInit /\ ScoreIdle

NextLex ==
    \/ ReadDoc /\ UNCHANGED lexRest
    \/ BuildMain /\ UNCHANGED lexRest
    \/ BuildMl /\ UNCHANGED lexRest

SpecLex == InitLex /\ [][NextLex]_vars

\* the documents the builder that ran was given
TrainingDocs ==
    IF lexbuilt.builder = "build_lexicons" THEN SingleLabel(corpus)
    ELSE corpus

\* the documents that carry the label
MemberDocs(docs, c) == {i \in DOMAIN docs : c \in Range(docs[i].labels)}

\* the categories of the lexicon that was built
BuiltCategories == {lexbuilt.lexicon[k].category : k \in DOMAIN lexbuilt.lexicon}

\* the centroid of the category over the fitted vocabulary is not zero
NonZeroCentroid(docs, c) ==
    \E t \in FittedTerms(docs, lexbuilt.min_df) :
       \E i \in MemberDocs(docs, c) : Tfidf(docs[i].text, t) > 0

\* C16: a category is in the built lexicon only if at least 5 training
\* documents carry its label, and a category of exactly 5 member documents
\* with a non-zero centroid is in it.
C16_MinCategorySize ==
    lexbuilt.builder # "none" =>
       /\ \A c \in BuiltCategories :
             Cardinality(MemberDocs(TrainingDocs, c)) >= MinCategoryDocs
       /\ \A c \in {"grain", "oil"} :
             (/\ Cardinality(MemberDocs(TrainingDocs, c)) = MinCategoryDocs
              /\ NonZeroCentroid(TrainingDocs, c))
                => c \in BuiltCategories

\* no category has enough documents to pass the filter of build_lexicon
NoCategorySurvives(docs) ==
    \A c \in {"grain", "oil"} :
       Cardinality(MemberDocs(docs, c)) < MinCategoryDocs

\* C18: build_lexicon signals an error when the fitted vocabulary is empty
\* and when no category survives the minimum-size filter, and the lexicon
\* file is then left as it was.
C18_BuildErrors ==
    [][(/\ lpc = "load" /\ lpc' = "built"
        /\ lexbuilt'.builder = "build_lexicon"
        /\ corpus # <<>>
        /\ \/ Vocabulary(corpus, lexbuilt'.min_df) = <<>>
           \/ NoCategorySurvives(corpus))
          => (/\ lexbuilt'.outcome \in {"empty vocabulary", "empty lexicon"}
              /\ lexfile' = lexfile)]_vars

\* a build over four documents with terms ended in the error of the empty
\* lexicon and the earlier lexicon file is still there
C18_Witness ==
    /\ lpc = "built"
    /\ lexbuilt.builder = "build_lexicon"
    /\ lexbuilt.outcome = "empty lexicon"
    /\ Len(corpus) = 4
    /\ Vocabulary(corpus, lexbuilt.min_df) # <<>>
    /\ lexfile = OldFile

\* the sum of the entries of a term over a set of documents
RECURSIVE TermSum(_, _, _)
TermSum(docs, members, t) ==
    IF members = {} THEN 0
    ELSE LET i == CHOOSE m \in members : TRUE
         IN Tfidf(docs[i].text, t) + TermSum(docs, members \ {i}, t)

\* the centroid weight of a term for a category, times the member count
CentroidWeight(c, t) == TermSum(TrainingDocs, MemberDocs(TrainingDocs, c), t)

\* C28: for every category of the built lexicon the stored terms number at
\* most top_k, each has a strictly positive centroid weight, they are listed
\* by non-increasing weight, and no term left out has a centroid weight
\* greater than that of a stored term.
C28_TopTerms ==
    lexbuilt.outcome = "ok" =>
       \A k \in DOMAIN lexbuilt.lexicon :
          LET c == lexbuilt.lexicon[k].category
              terms == lexbuilt.lexicon[k].terms
              stored == {terms[i].term : i \in DOMAIN terms}
          IN /\ Len(terms) <= lexbuilt.top_k
             /\ \A i \in DOMAIN terms :
                   /\ terms[i].term \in Range(lexbuilt.vocabulary)
                   /\ terms[i].sum = CentroidWeight(c, terms[i].term)
                   /\ terms[i].n = Cardinality(MemberDocs(TrainingDocs, c))
                   /\ terms[i].sum > 0
                   /\ \A j \in DOMAIN terms :
                         /\ i < j => terms[i].sum >= terms[j].sum
                         /\ i # j => terms[i].term # terms[j].term
             /\ \A t \in Range(lexbuilt.vocabulary) \ stored :
                   \A s \in stored :
                      CentroidWeight(c, t) <= CentroidWeight(c, s)

\* build_lexicon kept the top_k = 2 heaviest of three terms of positive
\* weight for a category, two of them of equal weight
C28_Witness ==
    /\ lexbuilt.builder = "build_lexicon" /\ lexbuilt.outcome = "ok"
    /\ lexbuilt.top_k = 2
    /\ Len(lexbuilt.vocabulary) = 3
    /\ \E k \in DOMAIN lexbuilt.lexicon :
          /\ Len(lexbuilt.lexicon[k].terms) = 2
          /\ lexbuilt.lexicon[k].terms[1].sum = lexbuilt.lexicon[k].terms[2].sum
          /\ \A t \in Range(lexbuilt.vocabulary) :
                CentroidWeight(lexbuilt.lexicon[k].category, t) > 0

-----------------------------------------------------------------------------
(* classify/score_and_label.py                                             *)
(* A term is kept as the tuple of its words: the unigram "oil" is <<"oil">> *)
(* and the bigram "oil wheat" is <<"oil", "wheat">>.  A weight is a whole   *)
(* number; the weights a builder writes are positive.                      *)

\* the most pieces of a tokens cell
MaxPieces == 3

\* the categories of a lexicon file
ScoreCategories == {"earn", "grain", "oil", "trade"}

\* the pieces a tokens cell is made of, between single blanks: a word, or
\* nothing where blanks follow each other or stand at an end
Pieces == {"oil", "wheat", ""}

\* the term lists of the lexicon file: pairs of term and weight
TermLists ==
    { <<[term |-> <<"oil">>, w |-> 2]>>,
      <<[term |-> <<"wheat">>, w |-> 2]>>,
      <<[term |-> <<"oil", "wheat">>, w |-> 1], [term |-> <<"oil">>, w |-> 1],
        [term |-> <<"wheat">>, w |-> 1]>> }

\* {term: float(w) for term, w in terms}: a later pair of a term replaces an
\* earlier one
RECURSIVE TermDict(_)
TermDict(terms) ==
    IF terms = <<>> THEN <<>>
    ELSE LET n == Len(terms)
             before == TermDict(SubSeq(terms, 1, n - 1))
         IN [t \in DOMAIN before \cup {terms[n].term} |->
               IF t = terms[n].term THEN terms[n].w ELSE before[t]]

\* load_lexicon: the dict of the categories, in the order of the file
load_lexicon(file) ==
    [k \in DOMAIN file |->
       [category |-> file[k].category, weights |-> TermDict(file[k].terms)]]

\* tokens.split(): the words of the cell, blanks of any length between them
split(row) == SelectSeq(row, LAMBDA p : p # "")

\* tokens_to_ngrams: every token, then every pair of neighbours
tokens_to_ngrams(tokens) ==
    [i \in 1..Len(tokens) |-> <<tokens[i]>>]
        \o [i \in 1..(Len(tokens) - 1) |-> <<tokens[i], tokens[i + 1]>>]

\* the inner loop of score_row: s after the first n grams
RECURSIVE GramSum(_, _, _)
GramSum(grams, weights, n) ==
    IF n = 0 THEN 0
    ELSE GramSum(grams, weights, n - 1)
           + (IF grams[n] \in DOMAIN weights THEN weights[grams[n]] ELSE 0)

\* the list scores after the outer loop went through the first n categories
RECURSIVE ScoresOf(_, _, _)
ScoresOf(grams, lexicon, n) ==
    IF n = 0 THEN <<>>
    ELSE LET s == GramSum(grams, lexicon[n].weights, Len(grams))
             before == ScoresOf(grams, lexicon, n - 1)
         IN IF s > 0
            THEN Append(before, [category |-> lexicon[n].category, score |-> s])
            ELSE before

\* a sort by falling score that puts the later of two equal scores first: a
\* mutation of SortScores
RECURSIVE SortScoresLastFirst(_)
SortScoresLastFirst(scores) ==
    IF scores = <<>> THEN <<>>
    ELSE LET top == CHOOSE i \in DOMAIN scores :
                      \A j \in DOMAIN scores :
                         \/ scores[j].score < scores[i].score
                         \/ scores[j].score = scores[i].score /\ j <= i
         IN <<scores[top]>>
              \o SortScoresLastFirst(SubSeq(scores, 1, top - 1)
                                       \o SubSeq(scores, top + 1, Len(scores)))

\* scores.sort(key=lambda x: x[1], reverse=True): by falling score; the sort
\* is stable, so equal scores stay in the order they were appended
RECURSIVE SortScores(_)
SortScores(scores) ==
    IF scores = <<>> THEN <<>>
    ELSE LET top == CHOOSE i \in DOMAIN scores :
                      \A j \in DOMAIN scores :
                         \/ scores[j].score < scores[i].score
                         \/ scores[j].score = scores[i].score /\ j >= i
         IN <<scores[top]>>
              \o SortScores(SubSeq(scores, 1, top - 1)
                              \o SubSeq(scores, top + 1, Len(scores)))

\* score_row(tokens, lexicon)
score_row(tokens, lexicon) ==
    LET grams == tokens_to_ngrams(split(tokens))
        scores == SortScores(ScoresOf(grams, lexicon, Len(lexicon)))
    IN IF scores = <<>> THEN [label |-> "", top3 |-> <<>>]
       ELSE [label |-> scores[1].category,
             top3 |-> SubSeq(scores, 1, Min(3, Len(scores)))]

\* run starts: the lexicon file and the row are still to be read
ScoreInit == spc = "input" /\ srow = <<>> /\ slex = <<>> /\ sout = NoScore

\* json.loads reads one more category of the lexicon file
ReadCategory ==
    /\ spc = "input"
    /\ \E c \in ScoreCategories \ {slex[k].category : k \in DOMAIN slex},
          terms \in TermLists :
         slex' = Append(slex, [category |-> c, terms |-> terms])
    /\ UNCHANGED <<spc, srow, sout>>

\* the tokens cell of the row has one more piece
ReadPiece ==
    /\ spc = "input"
    /\ Len(srow) < MaxPieces
    /\ \E p \in Pieces : srow' = Append(srow, p)
    /\ UNCHANGED <<spc, slex, sout>>

\* process: score_row on the tokens cell with the loaded lexicon
ScoreRow ==
    /\ spc = "input"
    /\ spc' = "scored"
    /\ sout' = score_row(srow, load_lexicon(slex))
    /\ UNCHANGED <<srow, slex>>

\* the variables of the subsystems the scoring model leaves alone
scoreRest ==
    <<qvars, hvars, cvars, gvars, rvars, pvars, fvars, bvars, uvars, lvars>>

InitScore ==
    /\ QueueInit /\ HistoryInit /\ CrawlIdle /\ RateIdle /\ PoliteIdle
    /\ FetchIdle /\ RobotsIdle /\ CanonIdle /\ LexIdle /\ ScoreInit

NextScore ==
    \/ ReadCategory /\ UNCHANGED scoreRest
    \/ ReadPiece /\ UNCHANGED scoreRest
    \/ ScoreRow /\ UNCHANGED scoreRest

SpecScore == InitScore /\ [][NextScore]_vars

\* the words of the scored cell
ScoredWords == SelectSeq(srow, LAMBDA p : p # "")

\* how often the term occurs in the words: as a word for a unigram, as two
\* neighbours for a bigram
TermCount(term) ==
    IF Len(term) = 1
    THEN Cardinality({i \in DOMAIN ScoredWords : ScoredWords[i] = term[1]})
    ELSE Cardinality({i \in 1..(Len(ScoredWords) - 1) :
                         /\ ScoredWords[i] = term[1]
                         /\ ScoredWords[i + 1] = term[2]})

\* the weight the file gives the term in its k-th category: that of the last
\* pair of the term, 0 when there is none
FileWeight(k, term) ==
    LET at == {j \in DOMAIN slex[k].terms : slex[k].terms[j].term = term}
    IN IF at = {} THEN 0
       ELSE slex[k].terms[CHOOSE j \in at : \A i \in at : i <= j].w

\* the sum of the k-th category: weight times occurrences, over the terms
CategorySum(k) ==
    FileWeight(k, <<"oil">>) * TermCount(<<"oil">>)
      + FileWeight(k, <<"wheat">>) * TermCount(<<"wheat">>)
      + FileWeight(k, <<"oil", "wheat">>) * TermCount(<<"oil", "wheat">>)
      + FileWeight(k, <<"wheat", "oil">>) * TermCount(<<"wheat", "oil">>)

\* the categories of the file with a positive sum
PositiveCategories == {k \in DOMAIN slex : CategorySum(k) > 0}

\* the first category of the file among those of the highest sum
BestCategory ==
    CHOOSE k \in PositiveCategories :
       \A j \in PositiveCategories :
          \/ CategorySum(j) < CategorySum(k)
          \/ CategorySum(j) = CategorySum(k) /\ j >= k

\* the place of a category in the file
PlaceOf(c) == CHOOSE k \in DOMAIN slex : slex[k].category = c

\* C17: score_row sums per category the weights of the unigram and bigram
\* occurrences; the label is the first category of the highest sum, top3 has
\* at most three categories by falling score, all positive, and with no
\* positive sum the label is empty and top3 is the empty list.
C17_ScoreRow ==
    spc = "scored" =>
       IF PositiveCategories = {}
       THEN sout = [label |-> "", top3 |-> <<>>]
       ELSE /\ sout.label = slex[BestCategory].category
            /\ Len(sout.top3) = Min(3, Cardinality(PositiveCategories))
            /\ sout.top3[1].category = sout.label
            /\ \A i \in DOMAIN sout.top3 :
                  /\ PlaceOf(sout.top3[i].category) \in PositiveCategories
                  /\ sout.top3[i].score
                       = CategorySum(PlaceOf(sout.top3[i].category))
                  /\ sout.top3[i].score > 0
                  /\ \A j \in DOMAIN sout.top3 :
                        /\ i < j => sout.top3[i].score >= sout.top3[j].score
                        /\ i # j => sout.top3[i].category # sout.top3[j].category

\* four categories have a positive sum, the two highest are equal and the
\* later of them in the file is first by name; blanks follow each other in
\* the cell
C17_Witness ==
    /\ spc = "scored"
    /\ Cardinality(PositiveCategories) = 4
    /\ Len(sout.top3) = 3
    /\ sout.top3[1].score = sout.top3[2].score
    /\ sout.top3[1].category = "oil" /\ sout.top3[2].category = "earn"
    /\ sout.top3[3].score < sout.top3[2].score
    /\ Len(ScoredWords) < Len(srow)

-----------------------------------------------------------------------------
(* The frontier under arbitrary calls *)

Init ==
    QueueInit /\ HistoryInit /\ CrawlIdle /\ RateIdle /\ PoliteIdle /\ FetchIdle
    /\ RobotsIdle /\ CanonIdle /\ LexIdle /\ ScoreIdle

\* the variables of the subsystems the frontier model leaves alone
queueRest ==
    <<cvars, gvars, rvars, pvars, fvars, bvars, uvars, lvars, svars>>

Next ==
    \/ \E u \in QueueUrls, l \in Labels :
         Seed(u, l[1], l[2]) /\ UNCHANGED queueRest
    \/ \E u \in QueueUrls, d \in 0..CRAWL_DEPTH, l \in Labels :
         Push(u, d, l[1], l[2]) /\ UNCHANGED queueRest
    \/ Pop /\ UNCHANGED queueRest
    \/ Restart /\ UNCHANGED queueRest

Spec == Init /\ [][Next]_vars

-----------------------------------------------------------------------------
(* Claims about the frontier, checked under Spec *)


\* C1: within one process, pop returns each URL at most once, also when the
\* URL is pushed again after it was popped.
C1_PopAtMostOnce == \A u \in QueueUrls : popCount[u] <= 1

\* C2: a push (or seed) of a URL that is in the store changes nothing in the
\* store, so the first push's depth, source and record_type are kept; the
\* store never holds two rows of one URL, and a pop that returns the URL
\* leaves no row of it behind.
C2_DuplicatePushIgnored ==
    /\ [](\A u \in QueueUrls : Cardinality({r \in queue : r.url = u}) <= 1)
    /\ [][(lastOp'.op \in {"push", "seed"} /\ HasUrl(queue, lastOp'.url))
             => (queue' = queue /\ sqlite_sequence' = sqlite_sequence)]_vars
    /\ [][(lastOp'.op = "pop" /\ lastOp'.ret # None)
             => ~HasUrl(queue', lastOp'.url)]_vars

\* a push of a stored URL with other arguments than the stored row's was ignored
C2_Witness ==
    /\ lastOp.op = "push"
    /\ \E r \in queue : /\ r.url = lastOp.url
                         /\ <<r.depth, r.source, r.record_type>> # lastOp.args

\* C3: pop returns the pending item inserted earliest, removes exactly that
\* row and leaves the others as they are; it returns none exactly when
\* nothing is pending; a restart leaves every pending item, and their order,
\* in the store.
C3_PopOldestFirst ==
    /\ []({RowTuple(r) : r \in queue} = Range(pending))
    /\ [][lastOp'.op = "pop" =>
            IF queue = {}
            THEN lastOp'.ret = None /\ queue' = queue
            ELSE /\ lastOp'.ret = Head(pending)
                 /\ queue' = {r \in queue : RowTuple(r) # lastOp'.ret}
                 /\ Cardinality(queue') = Cardinality(queue) - 1
                 /\ pending' = Tail(pending)]_vars
    /\ [][lastOp'.op = "restart" => (queue' = queue /\ pending' = pending)]_vars

\* a pop returned an item while two later ones stay pending
C3_Witness ==
    /\ lastOp.op = "pop"
    /\ lastOp.ret # None
    /\ Len(pending) >= 2

\* C4: CrawlQueue.push for a domain at its page budget leaves the store and
\* the counters unchanged; below the budget it inserts the URL, with the
\* arguments given, when the store does not hold it.
C4_PushRespectsBudget ==
    [][lastOp'.op = "push" =>
        IF domain_counts[_domain(lastOp'.url)] >= MAX_PAGES_PER_DOMAIN
        THEN UNCHANGED <<queue, sqlite_sequence, domain_counts>>
        ELSE /\ domain_counts' = domain_counts
             /\ ~HasUrl(queue, lastOp'.url) =>
                   /\ \E r \in queue' :
                        /\ r.url = lastOp'.url
                        /\ <<r.depth, r.source, r.record_type>> = lastOp'.args
                        /\ queue' = queue \cup {r}
                        /\ \A o \in queue : o.id < r.id]_vars

\* a push of an absent URL was dropped because its domain is at the budget
C4_Witness ==
    /\ lastOp.op = "push"
    /\ domain_counts[_domain(lastOp.url)] >= MAX_PAGES_PER_DOMAIN
    /\ ~HasUrl(queue, lastOp.url)

====
